---- MODULE Spec2Model ----
(***************************************************************************)
(* Model of the NRG risk engine (src/src/risk_engine.py) and of the part   *)
(* of its SQLite store (src/src/storage.py) that the engine reads and      *)
(* writes.                                                                 *)
(*                                                                         *)
(* Numbers.  The program computes with Python floats.  The model computes  *)
(* with exact rationals <<n, d>> (d > 0, lowest terms); +infinity, which   *)
(* the program produces as float('inf'), is <<1, 0>>.                      *)
(*                                                                         *)
(* Text.  Symbols and mapping patterns are sequences of one-character      *)
(* strings so that the pattern matcher can look at single characters.      *)
(*                                                                         *)
(* Time.  datetime.now() is modelled by a counter that is read and then    *)
(* advanced by every compute() call.                                       *)
(***************************************************************************)
EXTENDS Integers, Sequences, FiniteSets, TLC

VARIABLES
    account_config,   \* RiskEngine.account_config (account.yaml or defaults)
    thesis_configs,   \* RiskEngine.thesis_configs: thesis name -> ThesisConfig
    mappings,         \* RiskEngine.mappings: ordered rules of mapping.csv
    clock,            \* the next value datetime.now() returns
    equity_history,   \* table equity_history, rows in insertion order
    mode_history,     \* table mode_history, rows in insertion order
    thesis_metrics,   \* table thesis_metrics, rows in insertion order
    positions,        \* table positions, rows in insertion order
    accounts_in,      \* the accounts_data argument of the latest compute()
    result,           \* what the latest compute() returned or raised
    runs,             \* number of compute() calls made so far
    storage_calls,    \* the Storage methods the latest compute() called, in order
    outcomes,         \* what every compute() so far returned or raised, in order
    run_log,          \* table run_log, rows in insertion order
    outward_calls,    \* what the latest run() called outside the engine, in order
    procs,            \* the compute() invocations in progress on the store
    call,             \* arguments of a call of one of the engine's functions
    ret               \* what that call returned

vars == <<account_config, thesis_configs, mappings, clock, equity_history,
          mode_history, thesis_metrics, positions, accounts_in, result, runs,
          storage_calls, outcomes, run_log, outward_calls, procs, call, ret>>

engine_vars == <<account_config, thesis_configs, mappings>>
storage_vars == <<equity_history, mode_history, thesis_metrics, positions>>
run_vars == <<clock, accounts_in, result, runs, storage_calls, outcomes>>
app_vars == <<run_log, outward_calls, procs>>

-----------------------------------------------------------------------------
(* Bounds of the model.                                                    *)

\* compute() calls in one behaviour
MaxRuns == 3
\* the drawdowns handed to compute_mode alone are -k/100 for k up to this
MaxDrawdownSteps == 30
\* rules in the mapping tables handed to _map_position_to_thesis alone
MaxRules == 2
\* earlier runs behind each of the two stores one compute() is compared on
MaxHistory == 2
\* run() calls in one behaviour
MaxAppRuns == 2

-----------------------------------------------------------------------------
(* Exact arithmetic standing in for Python's float arithmetic.             *)

Abs(n) == IF n < 0 THEN -n ELSE n

RECURSIVE GCD(_, _)
GCD(a, b) == IF b = 0 THEN a ELSE GCD(b, a % b)

\* The rational n/d (d # 0) in lowest terms with a positive denominator.
Rat(n, d) ==
    LET g == GCD(Abs(n), Abs(d))
        s == IF d < 0 THEN -1 ELSE 1
    IN  <<(s * n) \div g, (s * d) \div g>>

FromInt(n) == <<n, 1>>
Inf == <<1, 0>>
Zero == <<0, 1>>
One == <<1, 1>>
IsInf(a) == a[2] = 0

RAdd(a, b) == Rat(a[1] * b[2] + b[1] * a[2], a[2] * b[2])
RSub(a, b) == Rat(a[1] * b[2] - b[1] * a[2], a[2] * b[2])
RMul(a, b) == Rat(a[1] * b[1], a[2] * b[2])
\* a / b for b # 0 (Python raises ZeroDivisionError for b = 0: see the callers)
RDiv(a, b) == Rat(a[1] * b[2], a[2] * b[1])
RNeg(a) == <<-a[1], a[2]>>
RAbs(a) == <<Abs(a[1]), a[2]>>
\* comparisons; they are also right when one side is Inf
RLt(a, b) == a[1] * b[2] < b[1] * a[2]
RLe(a, b) == a[1] * b[2] <= b[1] * a[2]
RGt(a, b) == RLt(b, a)
RGe(a, b) == RLe(b, a)
RMax(a, b) == IF RGt(b, a) THEN b ELSE a

\* Round a finite rational to the nearest integer, ties to the even one: what
\* the format specs ",.0f", ".0%" and ".1%" do with the digit they cut at.
RoundHalfEven(a) ==
    LET n == a[1]
        d == a[2]
        fl == IF n >= 0 THEN n \div d ELSE -((-n + d - 1) \div d)
        twice == 2 * (n - fl * d)
    IN  IF twice < d THEN fl
        ELSE IF twice > d THEN fl + 1
        ELSE IF fl % 2 = 0 THEN fl ELSE fl + 1

-----------------------------------------------------------------------------
(* Enumerations and defaults of the engine.                                *)

RiskMode == {"NORMAL", "HALF", "MIN"}
ThesisStatus == {"ACTIVE", "WATCH", "BROKEN"}
InstrumentType == {"STOCK", "ETF", "OPTION", "CASH", "OTHER"}
AccountStatus == {"OK", "ERROR", "PARTIAL"}
UNMAPPED == "_UNMAPPED"

\* Python's None: what yaml.safe_load returns for an empty document
None == [none |-> TRUE]

\* d.get(k, default) of a Python dict, modelled as a function
Get(d, k, default) == IF k \in DOMAIN d THEN d[k] ELSE default

\* the defaults _compute_mode falls back on
DefaultDrawdownX == Rat(12, 100)
\* no budget in a mode without an entry
DefaultScale_zero == Zero
\* line 189: self.account_config.get("risk_scale", {}).get(mode, 1.0)
DefaultScale == One
\* the fallback with the budget the loader gives an entry without one
DefaultThesisConfig_loader_budget(name) ==
    [name |-> name, stress_pct |-> Rat(25, 100), budget_pct |-> Rat(5, 100),
     status |-> "ACTIVE"]

\* lines 259-266: the ThesisConfig compute() builds for a thesis that has none
DefaultThesisConfig(name) ==
    [name |-> name, stress_pct |-> Rat(25, 100), budget_pct |-> Rat(2, 100),
     status |-> "ACTIVE"]

-----------------------------------------------------------------------------
(* RiskEngine._map_position_to_thesis: exact match, else the rule's        *)
(* pattern as the regular expression "^pattern$" under re.IGNORECASE,      *)
(* tried with re.match.  The regular expressions modelled are those over   *)
(* letters, ".", "*", "|", "(" and "{": a "(" is never closed, so it       *)
(* stands for the patterns re.compile rejects with re.error; a "{" stands  *)
(* for the quantifier "{4294967296}", a repetition count re.compile        *)
(* rejects with OverflowError.                                             *)

\* re.IGNORECASE on the letters of the model
Fold(c) == CASE c = "a" -> "A" [] c = "b" -> "B" [] OTHER -> c

Anchors == {"^", "$"}

\* a "*" with nothing to repeat (at the start, after an anchor, "|" or "(")
\* or after a "*"
BadStar(re, i) ==
    /\ re[i] = "*"
    /\ (i = 1 \/ re[i - 1] \in Anchors \cup {"|", "*", "("})

\* what re.compile does with the expression, which it reads from the left:
\* it raises at the first "{" (OverflowError) or misplaced "*" (re.error),
\* else at the end of an expression with an unterminated group (re.error)
CompileOutcome(re) ==
    LET bad == {i \in 1..Len(re) : re[i] = "{" \/ BadStar(re, i)}
    IN  IF bad # {}
        THEN LET first == CHOOSE i \in bad : \A j \in bad : i <= j
             IN  IF re[first] = "{" THEN "OverflowError" ELSE "re.error"
        ELSE IF \E i \in 1..Len(re) : re[i] = "(" THEN "re.error"
        ELSE "ok"

\* re.compile raises re.error
CompileError(re) == CompileOutcome(re) = "re.error"

\* the alternatives of a regular expression, split at "|"
RECURSIVE SplitAlt(_, _)
SplitAlt(re, cur) ==
    IF re = <<>> THEN <<cur>>
    ELSE IF Head(re) = "|" THEN <<cur>> \o SplitAlt(Tail(re), <<>>)
    ELSE SplitAlt(Tail(re), Append(cur, Head(re)))

\* one alternative as a sequence of atoms, each starred or not
RECURSIVE Items(_)
Items(alt) ==
    IF alt = <<>> THEN <<>>
    ELSE IF Len(alt) >= 2 /\ alt[2] = "*"
         THEN <<[atom |-> alt[1], star |-> TRUE]>> \o Items(SubSeq(alt, 3, Len(alt)))
         ELSE <<[atom |-> alt[1], star |-> FALSE]>> \o Items(Tail(alt))

\* the atom matches the character s[pos]
AtomAt(atom, s, pos) ==
    /\ pos <= Len(s)
    /\ (atom = "." \/ Fold(atom) = Fold(s[pos]))

\* items[i..] match s from position pos on (re.match: the match may end
\* before the end of s unless a "$" says otherwise)
RECURSIVE MatchItems(_, _, _, _)
MatchItems(items, i, s, pos) ==
    IF i > Len(items) THEN TRUE
    ELSE LET it == items[i] IN
         IF it.star
         THEN \/ MatchItems(items, i + 1, s, pos)
              \/ AtomAt(it.atom, s, pos) /\ MatchItems(items, i, s, pos + 1)
         ELSE IF it.atom = "^" THEN pos = 1 /\ MatchItems(items, i + 1, s, pos)
         ELSE IF it.atom = "$" THEN pos = Len(s) + 1 /\ MatchItems(items, i + 1, s, pos)
         ELSE AtomAt(it.atom, s, pos) /\ MatchItems(items, i + 1, s, pos + 1)

\* re.match(re, s, re.IGNORECASE) is not None, for a re that compiles
ReMatch(re, s) ==
    LET alts == SplitAlt(re, <<>>)
    IN  \E k \in 1..Len(alts) : MatchItems(Items(alts[k]), 1, s, 1)

\* the rule matches the symbol: lines 166-173
RuleMatches(mapping, symbol) ==
    LET pattern == mapping.pattern
        re == <<"^">> \o pattern \o <<"$">>
    IN  \/ pattern = symbol
        \/ CompileOutcome(re) = "ok" /\ ReMatch(re, symbol)

\* the rule's pattern raises what "except re.error" does not catch
RuleRaises(mapping, symbol) ==
    /\ mapping.pattern # symbol
    /\ CompileOutcome(<<"^">> \o mapping.pattern \o <<"$">>) = "OverflowError"

\* the first rule at which the loop of lines 163-173 stops, 0 if it runs out
FirstStop(rules, symbol) ==
    LET stops == {i \in 1..Len(rules) :
                     RuleMatches(rules[i], symbol) \/ RuleRaises(rules[i], symbol)}
    IN  IF stops = {} THEN 0 ELSE CHOOSE i \in stops : \A j \in stops : i <= j

\* _map_position_to_thesis does not return: OverflowError leaves the loop
map_raises(rules, symbol) ==
    LET stop == FirstStop(rules, symbol)
    IN  stop # 0 /\ RuleRaises(rules[stop], symbol)

\* the pair _map_position_to_thesis returns, when it returns
map_position_to_thesis(rules, symbol) ==
    LET stop == FirstStop(rules, symbol)
    IN  IF stop # 0 /\ RuleMatches(rules[stop], symbol)
        THEN <<rules[stop].thesis, rules[stop].weight>>
        ELSE <<UNMAPPED, One>>

-----------------------------------------------------------------------------
(* RiskEngine._compute_mode                                                *)

\* _compute_mode with the first boundary on the wrong side: -X is NORMAL
compute_mode_inclusive(config, drawdown) ==
    LET x == Get(config, "drawdown_x", DefaultDrawdownX)
        risk_scales == Get(config, "risk_scale", <<>>)
        mode == IF RGe(drawdown, RNeg(x)) THEN "NORMAL"
                ELSE IF RGt(drawdown, RMul(FromInt(-2), x)) THEN "HALF"
                ELSE "MIN"
    IN  <<mode, Get(risk_scales, mode, DefaultScale)>>

compute_mode(config, drawdown) ==
    LET x == Get(config, "drawdown_x", DefaultDrawdownX)
        risk_scales == Get(config, "risk_scale", <<>>)
        mode == IF RGt(drawdown, RNeg(x)) THEN "NORMAL"
                ELSE IF RGt(drawdown, RMul(FromInt(-2), x)) THEN "HALF"
                ELSE "MIN"
    IN  <<mode, Get(risk_scales, mode, DefaultScale)>>

-----------------------------------------------------------------------------
(* Storage: the reads compute() makes and the rows it inserts.             *)

NoMode == "NONE"

\* get_peak with MIN(peak) in the query
get_peak_min(eh) ==
    IF eh = <<>> THEN Zero
    ELSE LET m == CHOOSE i \in 1..Len(eh) :
                      \A j \in 1..Len(eh) : RLe(eh[i].peak, eh[j].peak)
         IN  eh[m].peak

\* get_peak over the rows of the last mode only: the greatest equity
\* recorded in the mode the last row has
get_peak_of_last_mode(eh) ==
    IF eh = <<>> THEN Zero
    ELSE LET same == {i \in 1..Len(eh) : eh[i].mode = eh[Len(eh)].mode}
             m == CHOOSE i \in same : \A j \in same : RLe(eh[j].equity, eh[i].equity)
         IN  eh[m].equity

\* SELECT MAX(peak) FROM equity_history; 0.0 when there is no row (NULL)
\* or the maximum is falsy
get_peak(eh) ==
    IF eh = <<>> THEN Zero
    ELSE LET m == CHOOSE i \in 1..Len(eh) :
                      \A j \in 1..Len(eh) : RLe(eh[j].peak, eh[i].peak)
         IN  IF eh[m].peak = Zero THEN Zero ELSE eh[m].peak

\* get_last_mode with the rows in ascending order: the oldest mode
get_last_mode_oldest(eh) ==
    IF eh = <<>> THEN NoMode
    ELSE LET m == CHOOSE i \in 1..Len(eh) :
                      \A j \in 1..Len(eh) : eh[i].timestamp <= eh[j].timestamp
         IN  eh[m].mode

\* SELECT mode FROM equity_history ORDER BY timestamp DESC LIMIT 1; None
\* when there is no row.  Among rows of one timestamp the latest inserted
\* is taken.
get_last_mode(eh) ==
    IF eh = <<>> THEN NoMode
    ELSE LET m == CHOOSE i \in 1..Len(eh) :
                      /\ \A j \in 1..Len(eh) : eh[j].timestamp <= eh[i].timestamp
                      /\ \A j \in (i + 1)..Len(eh) : eh[j].timestamp < eh[i].timestamp
         IN  eh[m].mode

EquitySnapshot(timestamp, equity, peak, drawdown, mode, risk_scale, status) ==
    [timestamp |-> timestamp, equity |-> equity, peak |-> peak,
     drawdown |-> drawdown, mode |-> mode, risk_scale |-> risk_scale,
     status |-> status]

ModeChangeRow(timestamp, old_mode, new_mode, equity, drawdown) ==
    [timestamp |-> timestamp, old_mode |-> old_mode, new_mode |-> new_mode,
     equity |-> equity, drawdown |-> drawdown]

ThesisMetric(timestamp, t) ==
    [timestamp |-> timestamp, thesis |-> t.name, mv |-> t.mv,
     stress_pct |-> t.stress_pct, budget_pct |-> t.budget_pct,
     worst_loss |-> t.worst_loss, budget_dollars |-> t.budget_dollars,
     utilization |-> t.utilization, action |-> t.action, status |-> t.status]

PositionRecord(timestamp, p) ==
    [timestamp |-> timestamp, broker |-> p.broker, account_id |-> p.account_id,
     symbol |-> p.symbol, instrument_type |-> p.instrument_type, qty |-> p.qty,
     mv |-> p.mv, thesis |-> p.thesis]

-----------------------------------------------------------------------------
(* The steps of RiskEngine.compute.                                        *)

\* the aggregation without the test of the status
RECURSIVE TotalEquity_all(_)
TotalEquity_all(accounts) ==
    IF accounts = <<>> THEN Zero
    ELSE RAdd(TotalEquity_all(SubSeq(accounts, 1, Len(accounts) - 1)),
              FromInt(accounts[Len(accounts)].equity))

\* lines 198-211: equity and positions of the OK accounts, in order
RECURSIVE TotalEquity(_)
TotalEquity(accounts) ==
    IF accounts = <<>> THEN Zero
    ELSE LET acc == accounts[Len(accounts)]
             rest == TotalEquity(SubSeq(accounts, 1, Len(accounts) - 1))
         IN  IF acc.status = "OK" THEN RAdd(rest, FromInt(acc.equity)) ELSE rest

RECURSIVE AllPositions(_)
AllPositions(accounts) ==
    IF accounts = <<>> THEN <<>>
    ELSE IF Head(accounts).status = "OK"
         THEN Head(accounts).positions \o AllPositions(Tail(accounts))
         ELSE AllPositions(Tail(accounts))

\* only an ERROR account degrades the run
AggregateStatus_error_only(accounts) ==
    IF \E i \in 1..Len(accounts) : accounts[i].status = "ERROR" THEN "DEGRADED" ELSE "OK"

AggregateStatus(accounts) ==
    IF \E i \in 1..Len(accounts) : accounts[i].status # "OK" THEN "DEGRADED" ELSE "OK"

BrokerKey(acc) == <<acc.broker, acc.account_id>>

\* broker_statuses: a later account of the same broker and id overwrites
BrokerStatuses(accounts) ==
    [k \in {BrokerKey(accounts[i]) : i \in 1..Len(accounts)} |->
        LET last == CHOOSE i \in 1..Len(accounts) :
                        /\ BrokerKey(accounts[i]) = k
                        /\ \A j \in (i + 1)..Len(accounts) : BrokerKey(accounts[j]) # k
        IN  accounts[last].status]

\* lines 237-239: every position gets the thesis its symbol maps to
MapPositions(rules, all_positions) ==
    [i \in 1..Len(all_positions) |->
        [all_positions[i] EXCEPT
            !.thesis = map_position_to_thesis(rules, all_positions[i].symbol)[1]]]

\* lines 242-251: the keys of thesis_mvs, in insertion order
RECURSIVE ThesisOrder(_)
ThesisOrder(ps) ==
    IF ps = <<>> THEN <<>>
    ELSE LET before == ThesisOrder(SubSeq(ps, 1, Len(ps) - 1))
             thesis == ps[Len(ps)].thesis
         IN  IF \E i \in 1..Len(before) : before[i] = thesis
             THEN before ELSE Append(before, thesis)

ThesisPositions(ps, thesis) == SelectSeq(ps, LAMBDA p : p.thesis = thesis)

\* the thesis mv as the sum of the sizes of the positions, signs dropped
RECURSIVE SumMv_abs(_)
SumMv_abs(ps) ==
    IF ps = <<>> THEN Zero
    ELSE RAdd(SumMv_abs(SubSeq(ps, 1, Len(ps) - 1)), FromInt(Abs(ps[Len(ps)].mv)))

RECURSIVE SumMv(_)
SumMv(ps) ==
    IF ps = <<>> THEN Zero
    ELSE RAdd(SumMv(SubSeq(ps, 1, Len(ps) - 1)), FromInt(ps[Len(ps)].mv))

-----------------------------------------------------------------------------
(* Lines 256-312: the evaluation of one thesis.  The value is what the     *)
(* loop body produces: the ThesisResult and the entries it appends to the  *)
(* action log, or the ZeroDivisionError of line 293.                       *)

NoAction == [kind |-> "None"]
ExitAction == [kind |-> "EXIT"]
\* "REDUCE $" followed by reduce_amount in the format ",.0f"
ReduceAction(reduce_amount) == [kind |-> "REDUCE", amount |-> RoundHalfEven(reduce_amount)]

\* utilization in the format ".1%": tenths of a percent, or "inf%"
UtilText(utilization) ==
    IF IsInf(utilization) THEN [inf |-> TRUE, permille |-> 0]
    ELSE [inf |-> FALSE, permille |-> RoundHalfEven(RMul(utilization, FromInt(1000)))]

\* the warning for an option of either sign
HasShortOptions_any_sign(ps) ==
    \E i \in 1..Len(ps) : ps[i].instrument_type = "OPTION"

\* line 270
HasShortOptions(ps) ==
    \E i \in 1..Len(ps) : ps[i].instrument_type = "OPTION" /\ ps[i].qty < 0

ShortOptionWarning(thesis_name) == [kind |-> "WARNING", thesis |-> thesis_name]

ThesisResult(thesis_name, config, mv, worst_loss, budget_dollars, utilization, action, reduce_amount, target_mv, ps) ==
    [name |-> thesis_name, mv |-> mv, stress_pct |-> config.stress_pct,
     budget_pct |-> config.budget_pct, worst_loss |-> worst_loss,
     budget_dollars |-> budget_dollars, utilization |-> utilization,
     action |-> action, reduce_amount |-> reduce_amount, target_mv |-> target_mv,
     status |-> config.status, positions |-> ps]

\* the utilization tested before the status
ActionBranch_util_first(status, utilization) ==
    IF RGt(utilization, One) THEN "REDUCE"
    ELSE IF status = "BROKEN" THEN "EXIT"
    ELSE "None"

\* utilization >= 1.0 in place of > 1.0
ActionBranch_at_limit(status, utilization) ==
    IF status = "BROKEN" THEN "EXIT"
    ELSE IF RGe(utilization, One) THEN "REDUCE"
    ELSE "None"

\* lines 287 and 292: which branch the action comes from
ActionBranch(status, utilization) ==
    IF status = "BROKEN" THEN "EXIT"
    ELSE IF RGt(utilization, One) THEN "REDUCE"
    ELSE "None"

\* the budget multiplied by the stress instead of divided
TargetMv_product(budget_dollars, stress_pct) == RMul(budget_dollars, stress_pct)

\* line 293, for stress_pct # 0
TargetMv(budget_dollars, stress_pct) == RDiv(budget_dollars, stress_pct)

\* line 278
WorstLoss(mv, stress_pct) == RMul(RAbs(mv), stress_pct)

\* the budget without the risk scale of the mode
BudgetDollars_unscaled(total_equity, budget_pct, risk_scale) ==
    RMul(total_equity, budget_pct)

\* line 279
BudgetDollars(total_equity, budget_pct, risk_scale) ==
    RMul(RMul(total_equity, budget_pct), risk_scale)

\* line 280
Utilization(worst_loss, budget_dollars) ==
    IF RGt(budget_dollars, Zero) THEN RDiv(worst_loss, budget_dollars) ELSE Inf

evaluate_thesis(thesis_name, mv, ps, configs, total_equity, risk_scale) ==
    LET config == IF thesis_name \in DOMAIN configs THEN configs[thesis_name]
                  ELSE DefaultThesisConfig(thesis_name)
        warning == IF HasShortOptions(ps) THEN <<ShortOptionWarning(thesis_name)>>
                   ELSE <<>>
        worst_loss == WorstLoss(mv, config.stress_pct)
        budget_dollars == BudgetDollars(total_equity, config.budget_pct, risk_scale)
        utilization == Utilization(worst_loss, budget_dollars)
        branch == ActionBranch(config.status, utilization)
    IN  IF branch = "EXIT"
        THEN [raised |-> FALSE,
              actions |-> Append(warning, [kind |-> "EXIT", thesis |-> thesis_name]),
              result |-> ThesisResult(thesis_name, config, mv, worst_loss,
                                      budget_dollars, utilization, ExitAction, mv,
                                      Zero, ps)]
        ELSE IF branch = "REDUCE"
        THEN IF config.stress_pct = Zero
             THEN \* ZeroDivisionError at line 293
                  [raised |-> TRUE, actions |-> warning, result |-> [name |-> thesis_name]]
             ELSE LET target_mv == TargetMv(budget_dollars, config.stress_pct)
                      reduce_amount == RSub(mv, target_mv)
                  IN  [raised |-> FALSE,
                       actions |-> Append(warning,
                           [kind |-> "REDUCE", thesis |-> thesis_name,
                            amount |-> RoundHalfEven(reduce_amount),
                            util |-> UtilText(utilization)]),
                       result |-> ThesisResult(thesis_name, config, mv, worst_loss,
                                               budget_dollars, utilization,
                                               ReduceAction(reduce_amount),
                                               reduce_amount, target_mv, ps)]
        ELSE [raised |-> FALSE, actions |-> warning,
              result |-> ThesisResult(thesis_name, config, mv, worst_loss,
                                      budget_dollars, utilization, NoAction, Zero,
                                      mv, ps)]

\* the sort with a thesis put before, not after, those of its utilization
RECURSIVE SortByUtilization_ties_reversed(_)
SortByUtilization_ties_reversed(ts) ==
    IF ts = <<>> THEN <<>>
    ELSE LET sorted == SortByUtilization_ties_reversed(SubSeq(ts, 1, Len(ts) - 1))
             t == ts[Len(ts)]
             k == Cardinality({i \in 1..Len(sorted) :
                                  RGt(sorted[i].utilization, t.utilization)})
         IN  SubSeq(sorted, 1, k) \o <<t>> \o SubSeq(sorted, k + 1, Len(sorted))

\* line 315: thesis_results.sort(key=utilization, reverse=True), a stable sort
RECURSIVE SortByUtilization(_)
SortByUtilization(ts) ==
    IF ts = <<>> THEN <<>>
    ELSE LET sorted == SortByUtilization(SubSeq(ts, 1, Len(ts) - 1))
             t == ts[Len(ts)]
             k == Cardinality({i \in 1..Len(sorted) :
                                  RGe(sorted[i].utilization, t.utilization)})
         IN  SubSeq(sorted, 1, k) \o <<t>> \o SubSeq(sorted, k + 1, Len(sorted))

RECURSIVE Flatten(_)
Flatten(ss) == IF ss = <<>> THEN <<>> ELSE Head(ss) \o Flatten(Tail(ss))

-----------------------------------------------------------------------------
(* RiskEngine.compute as a function of the engine, the store and the       *)
(* arguments: what it raises or returns and the rows it inserts.           *)

\* the peak without the maximum
Peak_current(historical_peak, total_equity) == total_equity

\* the drawdown with the difference reversed
Drawdown_reversed(total_equity, peak) ==
    IF RGt(peak, Zero) THEN RDiv(RSub(peak, total_equity), peak) ELSE Zero

\* line 219
Peak(historical_peak, total_equity) == RMax(historical_peak, total_equity)

\* line 220
Drawdown(total_equity, peak) ==
    IF RGt(peak, Zero) THEN RDiv(RSub(total_equity, peak), peak) ELSE Zero

NoResult == [kind |-> "none"]
Raised(error) == [kind |-> "error", error |-> error]

\* compute() from what its two reads of the store return
compute_from(config, tconfigs, rules, historical_peak, old_mode, timestamp, accounts_data) ==
    LET total_equity == TotalEquity(accounts_data)
        all_positions == MapPositions(rules, AllPositions(accounts_data))
        status == AggregateStatus(accounts_data)
        peak == Peak(historical_peak, total_equity)
        drawdown == Drawdown(total_equity, peak)
        cm == compute_mode(config, drawdown)
        mode == cm[1]
        risk_scale == cm[2]
        mode_changed == old_mode # NoMode /\ old_mode # mode
        mode_actions ==
            (IF mode_changed
             THEN <<[kind |-> "MODE CHANGE", old |-> old_mode, new |-> mode]>>
             ELSE <<>>)
            \o (IF mode # "NORMAL"
                THEN <<[kind |-> "MODE", mode |-> mode,
                        percent |-> RoundHalfEven(RMul(risk_scale, FromInt(100)))]>>
                ELSE <<>>)
        mode_rows == IF mode_changed
                     THEN <<ModeChangeRow(timestamp, old_mode, mode, total_equity, drawdown)>>
                     ELSE <<>>
        order == ThesisOrder(all_positions)
        evals == [i \in 1..Len(order) |->
                     evaluate_thesis(order[i],
                                     SumMv(ThesisPositions(all_positions, order[i])),
                                     ThesisPositions(all_positions, order[i]),
                                     tconfigs, total_equity, risk_scale)]
        thesis_results == SortByUtilization([i \in 1..Len(order) |-> evals[i].result])
        actions == mode_actions \o Flatten([i \in 1..Len(order) |-> evals[i].actions])
        nothing == [mode_rows |-> <<>>, equity_rows |-> <<>>, thesis_rows |-> <<>>,
                    position_rows |-> <<>>]
        reads == <<"get_peak", "get_last_mode">>
        mode_calls == reads \o (IF mode_changed THEN <<"save_mode_change">> ELSE <<>>)
    IN  IF RLe(total_equity, Zero)
        THEN \* line 215
             [out |-> Raised("ValueError"), calls |-> <<>>] @@ nothing
        ELSE IF config = None
        THEN \* line 179: None has no get
             [out |-> Raised("AttributeError"), calls |-> <<"get_peak">>] @@ nothing
        ELSE IF \E i \in 1..Len(all_positions) :
                    map_raises(rules, all_positions[i].symbol)
        THEN \* line 170, called from line 238
             [out |-> Raised("OverflowError"), mode_rows |-> mode_rows,
              calls |-> mode_calls] @@ nothing
        ELSE IF \E i \in 1..Len(order) : evals[i].raised
        THEN \* line 293
             [out |-> Raised("ZeroDivisionError"), mode_rows |-> mode_rows,
              calls |-> mode_calls] @@ nothing
        ELSE [out |-> [kind |-> "ok", timestamp |-> timestamp, equity |-> total_equity,
                       peak |-> peak, drawdown |-> drawdown, mode |-> mode,
                       risk_scale |-> risk_scale, thesis_results |-> thesis_results,
                       positions |-> all_positions, status |-> status,
                       broker_statuses |-> BrokerStatuses(accounts_data),
                       actions |-> actions, mode_changed |-> mode_changed,
                       old_mode |-> old_mode],
              mode_rows |-> mode_rows,
              equity_rows |-> <<EquitySnapshot(timestamp, total_equity, peak, drawdown,
                                               mode, risk_scale, status)>>,
              thesis_rows |-> [i \in 1..Len(thesis_results) |->
                                  ThesisMetric(timestamp, thesis_results[i])],
              position_rows |-> [i \in 1..Len(all_positions) |->
                                    PositionRecord(timestamp, all_positions[i])],
              calls |-> mode_calls \o <<"save_equity_snapshot", "save_thesis_metrics",
                                        "save_positions">>]

\* lines 192-335: one compute() running alone on the store
compute(config, tconfigs, rules, eh, timestamp, accounts_data) ==
    compute_from(config, tconfigs, rules, get_peak(eh), get_last_mode(eh), timestamp,
                 accounts_data)

-----------------------------------------------------------------------------
(* The engines and the account data the model runs compute() on.           *)

Sym(a, b) == <<a, b>>
Rule(pattern, thesis) == [pattern |-> pattern, thesis |-> thesis, weight |-> One]
Config(name, stress, budget, status) ==
    [name |-> name, stress_pct |-> Rat(stress, 100), budget_pct |-> Rat(budget, 100),
     status |-> status]

\* the account.yaml defaults of _load_account_config
DefaultAccountConfig ==
    [drawdown_x |-> Rat(12, 100),
     risk_scale |-> [NORMAL |-> One, HALF |-> Rat(1, 2), MIN |-> Rat(1, 5)]]
\* an account.yaml with another threshold and no scale for MIN
SparseAccountConfig ==
    [drawdown_x |-> Rat(1, 10), risk_scale |-> [HALF |-> Rat(1, 2)]]

SampleTheses ==
    [Test_Thesis |-> Config("Test_Thesis", 30, 10, "ACTIVE"),
     Broken_Thesis |-> Config("Broken_Thesis", 25, 5, "BROKEN"),
     _UNMAPPED |-> Config("_UNMAPPED", 25, 2, "ACTIVE")]
\* a thesis.yaml whose only thesis has no stress and no budget
ZeroTheses == [Test_Thesis |-> Config("Test_Thesis", 0, 0, "WATCH")]

SampleMappings ==
    <<Rule(Sym("A", "A"), "Test_Thesis"), Rule(Sym("M", "."), "Test_Thesis"),
      Rule(<<"B", ".", "*">>, "Broken_Thesis")>>
PatternMappings ==
    <<Rule(<<"(", "A">>, "Broken_Thesis"), Rule(<<"a", ".", "|", "m">>, "Test_Thesis"),
      Rule(Sym("B", "R"), "Other_Thesis")>>

\* a thesis.yaml with two theses that have no budget
ZeroBudgetTheses ==
    [Test_Thesis |-> Config("Test_Thesis", 30, 10, "ACTIVE"),
     Broken_Thesis |-> Config("Broken_Thesis", 25, 5, "BROKEN"),
     Other_Thesis |-> Config("Other_Thesis", 25, 0, "ACTIVE"),
     _UNMAPPED |-> Config("_UNMAPPED", 25, 0, "WATCH")]

Engines ==
    {<<DefaultAccountConfig, SampleTheses, SampleMappings>>,
     <<DefaultAccountConfig, ZeroTheses, SampleMappings>>,
     <<SparseAccountConfig, ZeroBudgetTheses, PatternMappings>>}

Pos(symbol, instrument_type, qty, mv) ==
    [broker |-> "Schwab", account_id |-> "1", symbol |-> symbol,
     instrument_type |-> instrument_type, qty |-> qty, mv |-> mv,
     thesis |-> UNMAPPED]

Account(id, equity, status, ps) ==
    [broker |-> "Schwab", account_id |-> id, equity |-> equity, status |-> status,
     positions |-> ps]

LongBook == <<Pos(Sym("A", "A"), "STOCK", 100, 30), Pos(Sym("U", "N"), "ETF", 10, 1)>>
BigBook == <<Pos(Sym("M", "S"), "STOCK", 50, 50), Pos(Sym("B", "R"), "STOCK", 5, 2),
             Pos(Sym("A", "A"), "OPTION", -1, -3)>>
ShortBook == <<Pos(Sym("U", "N"), "STOCK", -20, -40), Pos(Sym("B", "R"), "OPTION", 2, 1)>>

FirstAccounts ==
    {Account("1", 100, "OK", LongBook), Account("1", 88, "OK", BigBook),
     Account("1", 76, "OK", ShortBook), Account("1", 120, "OK", <<>>),
     Account("1", 0, "OK", LongBook), Account("1", 50, "ERROR", BigBook)}
SecondAccounts ==
    {Account("2", 12, "OK", ShortBook), Account("2", 0, "PARTIAL", <<>>),
     Account("2", -100, "OK", <<>>)}

AccountLists ==
    {<<>>} \cup {<<a>> : a \in FirstAccounts}
    \cup {<<a, b>> : a \in {Account("1", 88, "OK", BigBook),
                            Account("1", 100, "OK", LongBook),
                            Account("1", 50, "ERROR", BigBook)},
                     b \in SecondAccounts}

-----------------------------------------------------------------------------
(* The engine run after run on one store.                                  *)

NoCall == [op |-> "none"]

Init ==
    /\ \E e \in Engines :
          /\ account_config = e[1]
          /\ thesis_configs = e[2]
          /\ mappings = e[3]
    /\ clock = 1
    /\ equity_history = <<>>
    /\ mode_history = <<>>
    /\ thesis_metrics = <<>>
    /\ positions = <<>>
    /\ accounts_in = <<>>
    /\ result = NoResult
    /\ runs = 0
    /\ storage_calls = <<>>
    /\ outcomes = <<>>
    /\ run_log = <<>>
    /\ outward_calls = <<>>
    /\ procs = <<>>
    /\ call = NoCall
    /\ ret = NoCall

\* compute() on a store whose save_equity_snapshot replaces the table
Compute_replacing(accounts_data) ==
    /\ runs < MaxRuns
    /\ \E c \in {compute(account_config, thesis_configs, mappings, equity_history,
                            clock, accounts_data)} :
           /\ result' = c.out
           /\ mode_history' = mode_history \o c.mode_rows
           /\ equity_history' = IF c.equity_rows = <<>> THEN equity_history
                                ELSE c.equity_rows
           /\ thesis_metrics' = thesis_metrics \o c.thesis_rows
           /\ positions' = positions \o c.position_rows
           /\ storage_calls' = c.calls
           /\ outcomes' = Append(outcomes, c.out)
    /\ clock' = clock + 1
    /\ runs' = runs + 1
    /\ accounts_in' = accounts_data
    /\ UNCHANGED <<engine_vars, app_vars, call, ret>>

\* one compute() and what it does to the store
Compute_on(accounts_data) ==
    /\ runs < MaxRuns
    /\ \E c \in {compute(account_config, thesis_configs, mappings, equity_history,
                            clock, accounts_data)} :
           /\ result' = c.out
           /\ mode_history' = mode_history \o c.mode_rows
           /\ equity_history' = equity_history \o c.equity_rows
           /\ thesis_metrics' = thesis_metrics \o c.thesis_rows
           /\ positions' = positions \o c.position_rows
           /\ storage_calls' = c.calls
           /\ outcomes' = Append(outcomes, c.out)
    /\ clock' = clock + 1
    /\ runs' = runs + 1
    /\ accounts_in' = accounts_data
    /\ UNCHANGED <<engine_vars, app_vars, call>>

Compute(accounts_data) == Compute_on(accounts_data) /\ UNCHANGED ret

Next == \E accounts_data \in AccountLists : Compute(accounts_data)

Spec == Init /\ [][Next]_vars

-----------------------------------------------------------------------------
(* _compute_mode on its own: one call with any threshold and drawdown.     *)

ModeConfigs ==
    {DefaultAccountConfig, SparseAccountConfig,
     [risk_scale |-> [NORMAL |-> One, MIN |-> Zero]],
     [drawdown_x |-> Rat(1, 4)]}

Drawdowns == {Rat(-k, 100) : k \in (-2)..MaxDrawdownSteps}

InitIdle ==
    /\ clock = 1
    /\ equity_history = <<>>
    /\ mode_history = <<>>
    /\ thesis_metrics = <<>>
    /\ positions = <<>>
    /\ accounts_in = <<>>
    /\ result = NoResult
    /\ runs = 0
    /\ storage_calls = <<>>
    /\ outcomes = <<>>
    /\ run_log = <<>>
    /\ outward_calls = <<>>
    /\ procs = <<>>
    /\ ret = NoCall

InitMode ==
    /\ InitIdle
    /\ account_config \in ModeConfigs
    /\ thesis_configs = SampleTheses
    /\ mappings = SampleMappings
    /\ \E d \in Drawdowns : call = [op |-> "_compute_mode", drawdown |-> d]

ComputeModeCall ==
    /\ call.op = "_compute_mode"
    /\ ret = NoCall
    /\ \E cm \in {compute_mode(account_config, call.drawdown)} :
          ret' = [op |-> "_compute_mode", mode |-> cm[1], risk_scale |-> cm[2]]
    /\ UNCHANGED <<engine_vars, storage_vars, run_vars, app_vars, call>>

SpecMode == InitMode /\ [][ComputeModeCall]_vars

\* C1: for a threshold X > 0, _compute_mode returns NORMAL iff d > -X, HALF
\* iff -2X < d <= -X and MIN iff d <= -2X; d = -X gives HALF, d = -2X MIN.
C1_ModeThresholds ==
    ret.op = "_compute_mode" =>
        LET X == Get(account_config, "drawdown_x", DefaultDrawdownX)
            d == call.drawdown
            negX == RSub(Zero, X)
            neg2X == RSub(negX, X)
        IN  RGt(X, Zero) =>
              /\ ret.mode \in RiskMode
              /\ ret.mode = "NORMAL" <=> RLt(negX, d)
              /\ ret.mode = "HALF" <=> (RLt(neg2X, d) /\ RLe(d, negX))
              /\ ret.mode = "MIN" <=> RLe(d, neg2X)
              /\ (d = negX => ret.mode = "HALF")
              /\ (d = neg2X => ret.mode = "MIN")

\* the boundary d = -X (X = 0.12) has been classified, as HALF
C1_Witness ==
    /\ ret.op = "_compute_mode"
    /\ account_config = DefaultAccountConfig
    /\ call.drawdown = Rat(-12, 100)
    /\ ret.mode = "HALF"

-----------------------------------------------------------------------------
(* The evaluation of one thesis on its own: any book of positions, any     *)
(* configuration of the thesis or none, any equity and risk scale.         *)

TPos(instrument_type, qty, mv) ==
    [Pos(Sym("A", "A"), instrument_type, qty, mv) EXCEPT !.thesis = "Test_Thesis"]

ThesisBooks ==
    {<<TPos("STOCK", 100, 30)>>, <<TPos("STOCK", 100, 50)>>, <<TPos("ETF", 10, 40)>>,
     <<TPos("STOCK", -100, -50)>>, <<TPos("STOCK", 100, 33), TPos("OPTION", -1, -3)>>,
     <<TPos("STOCK", 20, 20), TPos("STOCK", -20, -20)>>, <<TPos("OPTION", 1, 2)>>,
     <<TPos("OPTION", -2, -45)>>}

ThesisConfigChoices ==
    {[Test_Thesis |-> Config("Test_Thesis", stress, budget, status)] :
        stress \in {0, 25, 30}, budget \in {0, 2, 10}, status \in ThesisStatus}
    \cup {<<>>}

InitThesis ==
    /\ InitIdle
    /\ account_config = DefaultAccountConfig
    /\ mappings = SampleMappings
    /\ thesis_configs \in ThesisConfigChoices
    /\ \E ps \in ThesisBooks, total_equity \in {100, 90},
          risk_scale \in {One, Rat(1, 2), Rat(1, 5), Zero} :
          call = [op |-> "evaluate_thesis", thesis_name |-> "Test_Thesis", ps |-> ps,
                  total_equity |-> FromInt(total_equity), risk_scale |-> risk_scale]

EvaluateThesisCall ==
    /\ call.op = "evaluate_thesis"
    /\ ret = NoCall
    /\ \E e \in {evaluate_thesis(call.thesis_name, SumMv(call.ps), call.ps,
                                 thesis_configs, call.total_equity, call.risk_scale)} :
          ret' = [op |-> "evaluate_thesis", raised |-> e.raised,
                  actions |-> e.actions, result |-> e.result]
    /\ UNCHANGED <<engine_vars, storage_vars, run_vars, app_vars, call>>

SpecThesis == InitThesis /\ [][EvaluateThesisCall]_vars

\* the configuration the call's thesis is evaluated with, and its inputs
CallConfig == IF call.thesis_name \in DOMAIN thesis_configs
              THEN thesis_configs[call.thesis_name]
              ELSE DefaultThesisConfig(call.thesis_name)
CallMv == SumMv(call.ps)
Evaluated == ret.op = "evaluate_thesis"
EntriesFor(thesis_name) == SelectSeq(ret.actions, LAMBDA a : a.thesis = thesis_name)

\* C8: a thesis whose status is BROKEN gets action EXIT, reduce_amount = mv
\* and target_mv = 0, whatever its utilization, budget and market value.
C8_BrokenExits ==
    (Evaluated /\ CallConfig.status = "BROKEN") =>
        /\ ~ret.raised
        /\ ret.result.action = ExitAction
        /\ ret.result.reduce_amount = CallMv
        /\ ret.result.target_mv = Zero

\* a BROKEN thesis below its budget (utilization <= 1) and net short has
\* been evaluated and told to exit
C8_Witness ==
    /\ Evaluated
    /\ CallConfig.status = "BROKEN"
    /\ ~ret.raised
    /\ RLe(ret.result.utilization, One)
    /\ RLt(ret.result.mv, Zero)
    /\ ret.result.action = ExitAction


CallBudget == RMul(RMul(call.total_equity, CallConfig.budget_pct), call.risk_scale)
CallWorstLoss == RMul(RAbs(CallMv), CallConfig.stress_pct)
\* utilization > 1.0: no budget, or a worst loss above the budget
CallOverBudget == RLe(CallBudget, Zero) \/ RLt(CallBudget, CallWorstLoss)

\* C9 as stated: an ACTIVE thesis with utilization <= 1.0 has action null,
\* reduce_amount 0 and target_mv = mv, and no entry for it is appended to
\* the action log.
C9_AsStated ==
    (Evaluated /\ CallConfig.status = "ACTIVE" /\ ~CallOverBudget) =>
        /\ ~ret.raised
        /\ ret.result.action = NoAction
        /\ ret.result.reduce_amount = Zero
        /\ ret.result.target_mv = CallMv
        /\ EntriesFor(call.thesis_name) = <<>>

\* C9 (amended): an ACTIVE thesis with utilization <= 1.0 (1.0 included) has
\* action null, reduce_amount 0 and target_mv = mv, and no EXIT or REDUCE
\* entry for it is appended to the action log; the only entry appended for
\* it is the short-option warning, when it holds a short option.
C9_UnderBudgetNoAction ==
    (Evaluated /\ CallConfig.status = "ACTIVE" /\ ~CallOverBudget) =>
        /\ ~ret.raised
        /\ RLe(ret.result.utilization, One)
        /\ ret.result.action = NoAction
        /\ ret.result.reduce_amount = Zero
        /\ ret.result.target_mv = CallMv
        /\ \A i \in 1..Len(ret.actions) : ret.actions[i].kind = "WARNING"
        /\ ret.actions # <<>> => HasShortOptions(call.ps)

\* an ACTIVE thesis at utilization exactly 1.0 that holds a short option
\* has been evaluated: no action, and the warning in the action log
C9_Witness ==
    /\ Evaluated
    /\ CallConfig.status = "ACTIVE"
    /\ ~ret.raised
    /\ ret.result.utilization = One
    /\ ret.result.action = NoAction
    /\ ret.actions = <<ShortOptionWarning(call.thesis_name)>>

\* C10: a thesis that is not BROKEN and has utilization > 1.0 gets
\* target_mv = budget_dollars / stress_pct, reduce_amount = mv - target_mv
\* and the action "REDUCE $<reduce_amount>", for ACTIVE and WATCH alike
\* (stress_pct # 0: the quotient is not defined otherwise).
C10_OverBudgetReduces ==
    (Evaluated /\ CallConfig.status # "BROKEN" /\ CallOverBudget
       /\ CallConfig.stress_pct # Zero) =>
        /\ ~ret.raised
        /\ RGt(ret.result.utilization, One)
        /\ ret.result.budget_dollars = CallBudget
        /\ RMul(ret.result.target_mv, CallConfig.stress_pct) = CallBudget
        /\ RAdd(ret.result.reduce_amount, ret.result.target_mv) = CallMv
        /\ ret.result.action =
              [kind |-> "REDUCE", amount |-> RoundHalfEven(ret.result.reduce_amount)]
        /\ \E i \in 1..Len(ret.actions) :
              /\ ret.actions[i].kind = "REDUCE"
              /\ ret.actions[i].amount = ret.result.action.amount

\* a WATCH thesis over its (positive) budget has been told to reduce
C10_Witness ==
    /\ Evaluated
    /\ CallConfig.status = "WATCH"
    /\ ~ret.raised
    /\ RGt(CallBudget, Zero)
    /\ RGt(ret.result.utilization, One)
    /\ ret.result.action.kind = "REDUCE"
    /\ RGt(ret.result.reduce_amount, Zero)

-----------------------------------------------------------------------------
(* Properties of compute() run after run on one store (Spec).              *)

Succeeded == result.kind = "ok"
LastRow == equity_history[Len(equity_history)]

\* the equity of the OK accounts among the first n accounts
RECURSIVE OkEquity(_, _)
OkEquity(accounts, n) ==
    IF n = 0 THEN 0
    ELSE OkEquity(accounts, n - 1)
         + (IF accounts[n].status = "OK" THEN accounts[n].equity ELSE 0)

OkAccounts(accounts) == SelectSeq(accounts, LAMBDA acc : acc.status = "OK")
Unmapped(ps) == [i \in 1..Len(ps) |-> [ps[i] EXCEPT !.thesis = UNMAPPED]]

\* C2: the peak a successful compute() reports is >= the peak every earlier
\* successful call reported (each is the peak of a row of equity_history),
\* and storage.get_peak() never decreases from one call to the next, failed
\* calls included.
C2_PeakNeverDecreases ==
    [][/\ RLe(get_peak(equity_history), get_peak(equity_history'))
       /\ result'.kind = "ok" =>
             /\ equity_history' = Append(equity_history, LastRow')
             /\ LastRow'.peak = result'.peak
             /\ \A i \in 1..Len(equity_history) :
                   RLe(equity_history[i].peak, result'.peak)
             /\ get_peak(equity_history') = result'.peak]_vars

\* after a failed call, a later call with an equity below the peak has
\* succeeded and reported the earlier peak
C2_Witness ==
    /\ Succeeded
    /\ runs = 3
    /\ Len(equity_history) = 2
    /\ RLt(result.equity, result.peak)
    /\ equity_history[1].peak = result.peak

\* C3: from an empty store, the peak each successful run returns and
\* persists is the maximum of the total equities of the successful runs up
\* to and including it.
C3_PeakIsMaxEquity ==
    /\ \A j \in 1..Len(equity_history) :
          /\ \A i \in 1..j : RLe(equity_history[i].equity, equity_history[j].peak)
          /\ \E i \in 1..j : equity_history[i].equity = equity_history[j].peak
    /\ Succeeded =>
          /\ equity_history # <<>>
          /\ LastRow.peak = result.peak
          /\ LastRow.equity = result.equity
          /\ result.equity = FromInt(OkEquity(accounts_in, Len(accounts_in)))

\* three successful runs, the peak set by the second one
C3_Witness ==
    /\ Succeeded
    /\ Len(equity_history) = 3
    /\ RLt(equity_history[1].equity, equity_history[2].equity)
    /\ RLt(equity_history[3].equity, equity_history[2].equity)
    /\ result.peak = equity_history[2].equity

DrawdownHolds(r) ==
    /\ RGt(r.equity, Zero)
    /\ RGe(r.peak, r.equity)
    /\ RMul(r.drawdown, r.peak) = RSub(r.equity, r.peak)
    /\ RLe(r.drawdown, Zero)
    /\ RGt(r.drawdown, FromInt(-1))

\* C4: in every RiskResult and every persisted equity snapshot,
\* drawdown = (equity - peak) / peak with peak >= equity > 0, so that
\* -1 < drawdown <= 0 and the division is never by zero.
C4_DrawdownFormula ==
    /\ \A i \in 1..Len(equity_history) : DrawdownHolds(equity_history[i])
    /\ Succeeded => DrawdownHolds(result)

\* a run below the peak: a negative drawdown returned and persisted
C4_Witness ==
    /\ Succeeded
    /\ RLt(result.drawdown, Zero)
    /\ LastRow.drawdown = result.drawdown
    /\ RLt(result.equity, result.peak)


\* C5: compute() raises the equity error whenever the equity summed over
\* the OK accounts is <= 0 (an empty list and a list without OK account
\* included); it then returns no RiskResult and inserts no row, so that
\* the persisted peak and last mode stay as they were.
C5_EquityErrorWritesNothing ==
    [][(runs' = runs + 1 /\ OkEquity(accounts_in', Len(accounts_in')) <= 0) =>
          /\ result' = Raised("ValueError")
          /\ UNCHANGED storage_vars
          /\ get_peak(equity_history') = get_peak(equity_history)
          /\ get_last_mode(equity_history') = get_last_mode(equity_history)]_vars

\* after a successful run, a call whose accounts are all non-OK has failed
C5_Witness ==
    /\ result = Raised("ValueError")
    /\ accounts_in # <<>>
    /\ OkAccounts(accounts_in) = <<>>
    /\ equity_history # <<>>

\* C6: compute() sums the equity and concatenates the positions of the
\* accounts whose status is "OK" and of no other; the result's status is
\* "DEGRADED" iff some account is not OK; and the run fails for its equity
\* only when the OK accounts' equity is not positive.
C6_OnlyOkAccountsCount ==
    runs > 0 =>
        /\ Succeeded =>
              /\ result.equity = FromInt(OkEquity(accounts_in, Len(accounts_in)))
              /\ Unmapped(result.positions)
                    = Flatten([i \in 1..Len(OkAccounts(accounts_in)) |->
                                  OkAccounts(accounts_in)[i].positions])
              /\ result.status = "DEGRADED"
                    <=> OkAccounts(accounts_in) # accounts_in
              /\ result.status \in {"OK", "DEGRADED"}
        /\ result = Raised("ValueError")
              <=> OkEquity(accounts_in, Len(accounts_in)) <= 0

\* a run with an ERROR account that carries equity and positions, and an OK
\* account: it succeeded, DEGRADED, on the OK account's data alone
C6_Witness ==
    /\ Succeeded
    /\ result.status = "DEGRADED"
    /\ Len(accounts_in) = 2
    /\ accounts_in[1].status = "ERROR"
    /\ accounts_in[1].equity > 0
    /\ accounts_in[1].positions # <<>>
    /\ result.equity = FromInt(accounts_in[2].equity)

ModeChangeEntries(actions) == SelectSeq(actions, LAMBDA a : a.kind = "MODE CHANGE")

\* C7: a successful compute() sets mode_changed iff a last mode is
\* persisted and differs from the mode it classified; then, and only then,
\* it appends one MODE CHANGE entry to the action log and inserts one
\* mode_history row with the old mode, the new mode, equity and drawdown.
C7_ModeChangeDetected ==
    [][result'.kind = "ok" =>
          LET changed == /\ equity_history # <<>>
                         /\ LastRow.mode # result'.mode
          IN  /\ result'.mode_changed <=> changed
              /\ result'.old_mode =
                    (IF equity_history = <<>> THEN NoMode ELSE LastRow.mode)
              /\ changed =>
                    /\ ModeChangeEntries(result'.actions)
                          = <<[kind |-> "MODE CHANGE", old |-> LastRow.mode,
                               new |-> result'.mode]>>
                    /\ mode_history' = Append(mode_history,
                          [timestamp |-> result'.timestamp,
                           old_mode |-> LastRow.mode, new_mode |-> result'.mode,
                           equity |-> result'.equity,
                           drawdown |-> result'.drawdown])
              /\ ~changed =>
                    /\ ModeChangeEntries(result'.actions) = <<>>
                    /\ mode_history' = mode_history]_vars

\* equity 88 after a peak of 100 with X = 0.12: drawdown -0.12, the mode
\* goes from NORMAL to HALF and the change is recorded; in a third run
\* the mode stays HALF and nothing more is recorded
C7_Witness ==
    /\ Succeeded
    /\ Len(equity_history) = 3
    /\ equity_history[2].drawdown = Rat(-12, 100)
    /\ equity_history[1].mode = "NORMAL"
    /\ equity_history[2].mode = "HALF"
    /\ ~result.mode_changed
    /\ result.old_mode = "HALF"
    /\ Len(mode_history) = 1
    /\ mode_history[1].old_mode = "NORMAL"

-----------------------------------------------------------------------------
(* The figures of a thesis in a returned RiskResult.                       *)

\* the multiplier the engine's configuration gives the mode
ScaleOf(mode) == Get(Get(account_config, "risk_scale", <<>>), mode, DefaultScale)

ThesisFiguresHold(r, t) ==
    LET budget == RMul(RMul(r.equity, t.budget_pct), ScaleOf(r.mode))
        loss == RMul(RAbs(t.mv), t.stress_pct)
    IN  /\ t.budget_dollars = budget
        /\ t.worst_loss = loss
        /\ t.utilization = IF RGt(budget, Zero) THEN RDiv(loss, budget) ELSE Inf
        /\ (t.status # "BROKEN" /\ budget = Zero) => t.action.kind = "REDUCE"

\* C11: in every returned RiskResult each thesis has budget_dollars ==
\* equity * budget_pct * (the multiplier of the mode of that run),
\* worst_loss == |mv| * stress_pct, and utilization == worst_loss /
\* budget_dollars when budget_dollars > 0 and +infinity otherwise; a thesis
\* that is not BROKEN and has budget_dollars == 0 has the REDUCE action,
\* whatever its mv.
C11_ThesisFigures ==
    Succeeded =>
        \A i \in 1..Len(result.thesis_results) :
            ThesisFiguresHold(result, result.thesis_results[i])

\* a run in HALF at multiplier 1/2 returned a thesis with a budget and one,
\* not BROKEN, with none, which has the REDUCE action
C11_Witness ==
    /\ Succeeded
    /\ result.mode = "HALF"
    /\ ScaleOf("HALF") = Rat(1, 2)
    /\ \E i, j \in 1..Len(result.thesis_results) :
           LET t == result.thesis_results[i]
               u == result.thesis_results[j]
           IN  /\ t.budget_dollars = Zero /\ t.status = "WATCH"
               /\ t.utilization = Inf /\ t.action.kind = "REDUCE"
               /\ t.mv = FromInt(50)
               /\ RGt(u.budget_dollars, Zero)
               /\ u.budget_dollars = RMul(RMul(result.equity, u.budget_pct), Rat(1, 2))

-----------------------------------------------------------------------------
(* _map_position_to_thesis alone: one call on a mapping table and a symbol *)

MapPatterns ==
    {<<"A", "A">>, <<"a", ".">>, <<"A", "*">>, <<"A", "|", "B">>, <<"B", ".", "*">>,
     <<"(", "A">>, <<"*", "A">>, <<"A", "{">>, <<"(", "{">>}

MapSymbols ==
    {<<"A", "A">>, <<"a", "a">>, <<"A", "B">>, <<"B", "A">>, <<"B">>, <<"(", "A">>,
     <<"A", "{">>}

\* the rules of a table name different theses and weights
RuleThesis(i) == IF i = 1 THEN "First_Thesis" ELSE IF i = 2 THEN "Second_Thesis"
                 ELSE "Later_Thesis"
RuleTable(patterns) ==
    [i \in 1..Len(patterns) |->
        [pattern |-> patterns[i], thesis |-> RuleThesis(i), weight |-> Rat(1, i + 1)]]
MapTables == {RuleTable(ps) : ps \in UNION {[1..n -> MapPatterns] : n \in 0..MaxRules}}

InitMap ==
    /\ InitIdle
    /\ account_config = DefaultAccountConfig
    /\ thesis_configs = SampleTheses
    /\ mappings \in MapTables
    /\ \E symbol \in MapSymbols :
          call = [op |-> "_map_position_to_thesis", symbol |-> symbol]

MapPositionCall ==
    /\ call.op = "_map_position_to_thesis"
    /\ ret = NoCall
    /\ ret' = IF map_raises(mappings, call.symbol)
              THEN [op |-> "_map_position_to_thesis", raised |-> TRUE,
                    error |-> "OverflowError"]
              ELSE [op |-> "_map_position_to_thesis", raised |-> FALSE,
                    thesis |-> map_position_to_thesis(mappings, call.symbol)[1],
                    weight |-> map_position_to_thesis(mappings, call.symbol)[2]]
    /\ UNCHANGED <<engine_vars, storage_vars, run_vars, app_vars, call>>

SpecMap == InitMap /\ [][MapPositionCall]_vars

Mapped == ret # NoCall /\ ret.op = "_map_position_to_thesis"
Returned == Mapped /\ ~ret.raised

\* the whole symbol, and nothing less, is in the language of the pattern,
\* letters compared without case
AnchoredMatch(pattern, symbol) ==
    /\ CompileOutcome(pattern) = "ok"
    /\ LET alts == SplitAlt(pattern, <<>>)
       IN  \E k \in 1..Len(alts) :
              MatchItems(Items(<<"^">> \o alts[k] \o <<"$">>), 1, symbol, 1)

\* the rule matches as C12 says: exact equality or an anchored match
MatchesAsStated(mapping, symbol) ==
    mapping.pattern = symbol \/ AnchoredMatch(mapping.pattern, symbol)

\* C12: _map_position_to_thesis returns the thesis and weight of the first
\* rule, in load order, whose pattern equals the symbol or matches the whole
\* symbol without regard to case, and ("_UNMAPPED", 1.0) when there is none.
C12_AsStated ==
    Returned =>
        LET hits == {i \in 1..Len(mappings) : MatchesAsStated(mappings[i], call.symbol)}
        IN  IF hits = {}
            THEN ret.thesis = UNMAPPED /\ ret.weight = One
            ELSE LET first == CHOOSE i \in hits : \A j \in hits : i <= j
                 IN  /\ ret.thesis = mappings[first].thesis
                     /\ ret.weight = mappings[first].weight

\* C12, the reachable state that refutes it: the only rule is "A|B", the
\* symbol "AB" is not in its language, and the rule's thesis is returned
C12_Witness ==
    /\ Returned
    /\ Len(mappings) = 1
    /\ mappings[1].pattern = <<"A", "|", "B">>
    /\ call.symbol = <<"A", "B">>
    /\ ret.thesis = "First_Thesis"

\* the rule's pattern does not compile and is not the symbol itself
Malformed(mapping, symbol) ==
    /\ mapping.pattern # symbol
    /\ CompileOutcome(<<"^">> \o mapping.pattern \o <<"$">>) # "ok"

\* C13: a rule whose pattern does not compile as a regular expression, and is
\* not equal to the symbol, never matches and never aborts the resolution:
\* the call returns what it returns on the table without such rules.
C13_AsStated ==
    Mapped =>
        LET well == SelectSeq(mappings, LAMBDA rule : ~Malformed(rule, call.symbol))
        IN  /\ ~ret.raised
            /\ ret.thesis = map_position_to_thesis(well, call.symbol)[1]
            /\ ret.weight = map_position_to_thesis(well, call.symbol)[2]

\* C13, the reachable state that refutes it: the first rule's pattern has a
\* repetition count re.compile rejects with OverflowError, the second rule
\* is the symbol itself, and the call raises instead of returning
C13_Witness ==
    /\ Mapped
    /\ Len(mappings) = 2
    /\ mappings[1].pattern = <<"A", "{">>
    /\ mappings[2].pattern = <<"A", "A">>
    /\ call.symbol = <<"A", "A">>
    /\ ret.raised

\* rules that re.compile rejects with re.error are skipped
ReErrorRulesSkipped ==
    (Mapped /\ \A i \in 1..Len(mappings) : ~RuleRaises(mappings[i], call.symbol)) =>
        LET well == SelectSeq(mappings, LAMBDA rule : ~Malformed(rule, call.symbol))
        IN  /\ ~ret.raised
            /\ ret.thesis = map_position_to_thesis(well, call.symbol)[1]
            /\ ret.weight = map_position_to_thesis(well, call.symbol)[2]

-----------------------------------------------------------------------------
(* The aggregation of positions by thesis in a returned RiskResult.        *)

\* the signed sum of the mv of the first n positions, an integer
RECURSIVE MvTotal(_, _)
MvTotal(ps, n) == IF n = 0 THEN 0 ELSE MvTotal(ps, n - 1) + ps[n].mv

\* how many times the position occurs in the sequence
Occurrences(ps, p) == Cardinality({k \in 1..Len(ps) : ps[k] = p})

\* the sum of the mv fields of the first n thesis results
RECURSIVE ThesisMvTotal(_, _)
ThesisMvTotal(ts, n) ==
    IF n = 0 THEN Zero ELSE RAdd(ThesisMvTotal(ts, n - 1), ts[n].mv)

\* C14: in every returned RiskResult each position of an OK account has one
\* thesis id and is in the positions of exactly one ThesisResult, that of its
\* thesis; there is exactly one ThesisResult for every thesis id a position
\* has (_UNMAPPED included) and none for any other thesis; a ThesisResult's
\* mv is the signed, unweighted sum of the mv of its positions; and the mv of
\* the ThesisResults add up to the mv of the positions.
C14_AggregationByThesis ==
    Succeeded =>
        LET ps == result.positions
            ts == result.thesis_results
        IN  /\ Len(ps) = Len(Flatten([i \in 1..Len(OkAccounts(accounts_in)) |->
                                          OkAccounts(accounts_in)[i].positions]))
            /\ \A k \in 1..Len(ps) :
                   /\ ps[k].thesis
                         = map_position_to_thesis(mappings, ps[k].symbol)[1]
                   /\ \E i \in 1..Len(ts) :
                          /\ ts[i].name = ps[k].thesis
                          /\ Occurrences(ts[i].positions, ps[k]) = Occurrences(ps, ps[k])
                          /\ \A j \in 1..Len(ts) :
                                 j # i => Occurrences(ts[j].positions, ps[k]) = 0
            /\ \A i, j \in 1..Len(ts) : ts[i].name = ts[j].name => i = j
            /\ {ts[i].name : i \in 1..Len(ts)} = {ps[k].thesis : k \in 1..Len(ps)}
            /\ \A i \in 1..Len(ts) :
                   /\ \A k \in 1..Len(ts[i].positions) :
                          Occurrences(ps, ts[i].positions[k]) > 0
                   /\ ts[i].mv = FromInt(MvTotal(ts[i].positions, Len(ts[i].positions)))
            /\ ThesisMvTotal(ts, Len(ts)) = FromInt(MvTotal(ps, Len(ps)))

\* two OK accounts, five positions, three theses: _UNMAPPED has a long and a
\* short position and their signed sum as its mv, and no ThesisResult exists
\* for a configured thesis without positions
C14_Witness ==
    /\ Succeeded
    /\ Len(OkAccounts(accounts_in)) = 2
    /\ Len(result.positions) = 5
    /\ Len(result.thesis_results) = 3
    /\ \E i \in 1..Len(result.thesis_results) :
           LET t == result.thesis_results[i]
           IN  /\ t.name = UNMAPPED
               /\ Len(t.positions) = 2
               /\ t.positions[1].mv = 50 /\ t.positions[2].mv = -40
               /\ t.mv = FromInt(10)
    /\ \E name \in DOMAIN thesis_configs :
           \A i \in 1..Len(result.thesis_results) :
               result.thesis_results[i].name # name

\* where a position of the thesis first occurs in the position list
FirstSeen(ps, thesis) ==
    CHOOSE k \in 1..Len(ps) :
        ps[k].thesis = thesis /\ \A l \in 1..(k - 1) : ps[l].thesis # thesis

\* C15: the thesis_results of a returned RiskResult are in descending order
\* of utilization, infinite utilization first, and theses of equal
\* utilization are in the order in which their ids first occur in the
\* position list.
C15_SortedByUtilization ==
    Succeeded =>
        LET ts == result.thesis_results
        IN  \A i, j \in 1..Len(ts) :
                i < j =>
                    /\ RGe(ts[i].utilization, ts[j].utilization)
                    /\ ts[i].utilization = ts[j].utilization =>
                           FirstSeen(result.positions, ts[i].name)
                               < FirstSeen(result.positions, ts[j].name)

\* the thesis seen first has a finite utilization and comes last; the two
\* seen after it both have infinite utilization and keep their order
C15_Witness ==
    /\ Succeeded
    /\ ThesisOrder(result.positions) = <<"Test_Thesis", UNMAPPED, "Other_Thesis">>
    /\ Len(result.thesis_results) = 3
    /\ result.thesis_results[1].name = UNMAPPED
    /\ result.thesis_results[1].utilization = Inf
    /\ result.thesis_results[2].name = "Other_Thesis"
    /\ result.thesis_results[2].utilization = Inf
    /\ result.thesis_results[3].name = "Test_Thesis"
    /\ RLt(result.thesis_results[3].utilization, One)

-----------------------------------------------------------------------------
(* RiskEngine.__init__: the engine as the three loaders build it from the  *)
(* files of the configuration directory.  A file is missing, or cannot be  *)
(* parsed, or has been parsed into a value: None for an empty YAML         *)
(* document, a dict for a YAML mapping, the rows of a CSV file.            *)

Missing == [state |-> "missing"]
Unparseable == [state |-> "unparseable"]
Parsed(data) == [state |-> "parsed", data |-> data]

\* _load_account_config: whatever yaml.safe_load returns, the defaults when
\* open or safe_load raises
load_account_config(file) ==
    IF file.state = "parsed" THEN file.data ELSE DefaultAccountConfig

\* lines 132-138: the only thesis added when thesis.yaml cannot be loaded
FallbackThesisConfig ==
    [name |-> UNMAPPED, stress_pct |-> Rat(25, 100), budget_pct |-> Rat(2, 100),
     status |-> "ACTIVE"]

\* lines 120-127: the ThesisConfig of one entry of "theses"
EntryConfig(name, cfg) ==
    [name |-> name, stress_pct |-> Get(cfg, "stress_pct", Rat(25, 100)),
     budget_pct |-> Get(cfg, "budget_pct", Rat(5, 100)),
     status |-> Get(cfg, "status", "ACTIVE")]

\* the entry raises: None has no get, ThesisStatus(...) rejects the status
EntryRaises(cfg) == cfg = None \/ Get(cfg, "status", "ACTIVE") \notin ThesisStatus

\* _load_thesis_config: the entries before the first one that raises, and
\* the fallback _UNMAPPED when anything raised
load_thesis_config(file) ==
    LET readable == file.state = "parsed" /\ file.data # None
        entries == IF readable THEN Get(file.data, "theses", <<>>) ELSE <<>>
        bad == {i \in 1..Len(entries) : EntryRaises(entries[i].cfg)}
        n == IF bad = {} THEN Len(entries)
             ELSE (CHOOSE i \in bad : \A j \in bad : i <= j) - 1
        loaded == [name \in {entries[i].name : i \in 1..n} |->
                      LET i == CHOOSE i \in 1..n : entries[i].name = name
                      IN  EntryConfig(name, entries[i].cfg)]
    IN  IF readable /\ bad = {} THEN loaded
        ELSE [name \in DOMAIN loaded \cup {UNMAPPED} |->
                 IF name = UNMAPPED THEN FallbackThesisConfig ELSE loaded[name]]

\* str.strip on a sequence of characters
RECURSIVE Strip(_)
Strip(text) ==
    IF text # <<>> /\ Head(text) = " " THEN Strip(Tail(text))
    ELSE IF text # <<>> /\ text[Len(text)] = " "
    THEN Strip(SubSeq(text, 1, Len(text) - 1))
    ELSE text

\* float(cell) raises ValueError
NotANumber(row) == "weight" \in DOMAIN row /\ "number" \notin DOMAIN row.weight

\* lines 153-157: the rule of one row of mapping.csv
RowRule(row) ==
    [pattern |-> Strip(Get(row, "symbol_pattern", <<>>)),
     thesis |-> Get(row, "thesis", UNMAPPED),
     weight |-> IF "weight" \in DOMAIN row THEN row.weight.number ELSE One]

\* _load_mappings: the rows before the first one that raises
load_mappings(file) ==
    LET rows == IF file.state = "parsed" THEN file.data ELSE <<>>
        bad == {i \in 1..Len(rows) : NotANumber(rows[i])}
        n == IF bad = {} THEN Len(rows)
             ELSE (CHOOSE i \in bad : \A j \in bad : i <= j) - 1
    IN  [i \in 1..n |-> RowRule(rows[i])]

\* account.yaml: absent, not YAML, empty, and three mappings
AccountFiles ==
    {Missing, Unparseable, Parsed(None), Parsed(DefaultAccountConfig),
     Parsed(SparseAccountConfig), Parsed([drawdown_x |-> Rat(1, 4)])}

Entry(name, cfg) == [name |-> name, cfg |-> cfg]

\* thesis.yaml with every key, with keys left out, and with no "theses"
ValidThesisYaml ==
    [theses |-> <<Entry("Test_Thesis", [stress_pct |-> Rat(30, 100),
                                        budget_pct |-> Rat(10, 100),
                                        status |-> "WATCH"]),
                  Entry("Broken_Thesis", [status |-> "BROKEN"]),
                  Entry("Other_Thesis", [budget_pct |-> Rat(1, 100)])>>]
\* thesis.yaml whose second entry has a status that is none of the three
InvalidStatusYaml ==
    [theses |-> <<Entry("Test_Thesis", [stress_pct |-> Rat(30, 100)]),
                  Entry("Broken_Thesis", [status |-> "CLOSED"]),
                  Entry("Other_Thesis", [budget_pct |-> Rat(1, 100)])>>]
\* thesis.yaml whose second entry has no body
EmptyEntryYaml ==
    [theses |-> <<Entry("Other_Thesis", [stress_pct |-> Rat(10, 100)]),
                  Entry("Test_Thesis", None)>>]
\* thesis.yaml with stress_pct: 0 and budget_pct: 0 for a thesis
ZeroStressYaml ==
    [theses |-> <<Entry("Test_Thesis", [stress_pct |-> Zero, budget_pct |-> Zero])>>]

ThesisFiles ==
    {Missing, Unparseable, Parsed(None), Parsed(ValidThesisYaml),
     Parsed(InvalidStatusYaml), Parsed(EmptyEntryYaml), Parsed(ZeroStressYaml),
     Parsed([version |-> FromInt(1)])}

Row(symbol_pattern, thesis, weight) ==
    [symbol_pattern |-> symbol_pattern, thesis |-> thesis, weight |-> weight]
Number(r) == [number |-> r]

\* mapping.csv with padded cells and with no weight column
ValidRows ==
    <<Row(<<" ", "A", "A">>, "Test_Thesis", Number(Rat(1, 2))),
      Row(<<"B", ".", "*", " ">>, "Broken_Thesis", Number(One))>>
NoWeightRows ==
    <<[symbol_pattern |-> <<"M", ".">>, thesis |-> "Other_Thesis"],
      [symbol_pattern |-> <<"a", "a">>]>>
\* mapping.csv whose second row has a weight that is not a number
BadWeightRows ==
    <<Row(<<"A", "A">>, "Test_Thesis", Number(One)),
      Row(<<"M", "S">>, "Test_Thesis", [text |-> "half"]),
      Row(<<"B", "R">>, "Broken_Thesis", Number(One))>>
\* mapping.csv with a pattern whose repetition count is too large
OverflowRows == <<Row(<<"M", "{">>, "Test_Thesis", Number(One))>>

MappingFiles ==
    {Missing, Unparseable, Parsed(<<>>), Parsed(ValidRows), Parsed(NoWeightRows),
     Parsed(BadWeightRows), Parsed(OverflowRows)}

InitConfig ==
    /\ InitIdle
    /\ call = NoCall
    /\ \E account \in AccountFiles, thesis \in ThesisFiles, mapping \in MappingFiles :
          /\ account_config = load_account_config(account)
          /\ thesis_configs = load_thesis_config(thesis)
          /\ mappings = load_mappings(mapping)

\* the first compute() of a newly constructed engine
FirstCompute(accounts_data) == runs = 0 /\ Compute(accounts_data)

NextConfig == \E accounts_data \in AccountLists : FirstCompute(accounts_data)

SpecConfig == InitConfig /\ [][NextConfig]_vars

\* C16: a thesis configuration with stress_pct == 0 is rejected when the
\* configuration is loaded, so that compute() never divides budget_dollars
\* by a stress_pct of zero: no compute() of a loaded engine ends in the
\* ZeroDivisionError of that division.
C16_AsStated == result # Raised("ZeroDivisionError")

\* C16, the reachable state that refutes it: the engine loaded a thesis with
\* stress_pct == 0 and compute() raised ZeroDivisionError on a position of it
C16_Witness ==
    /\ runs > 0
    /\ "Test_Thesis" \in DOMAIN thesis_configs
    /\ thesis_configs["Test_Thesis"].stress_pct = Zero
    /\ \E i \in 1..Len(accounts_in) : \E k \in 1..Len(accounts_in[i].positions) :
           map_position_to_thesis(mappings, accounts_in[i].positions[k].symbol)[1]
               = "Test_Thesis"
    /\ result = Raised("ZeroDivisionError")

\* C18: whatever the state of account.yaml, thesis.yaml and mapping.csv
\* (missing, unparseable, empty, with an invalid entry, valid), the engine is
\* constructed and its compute() on accounts with positive OK equity returns
\* a RiskResult.
C18_AsStated ==
    (runs > 0 /\ OkEquity(accounts_in, Len(accounts_in)) > 0) => Succeeded

\* C18, the reachable state that refutes it: account.yaml was empty, the
\* engine holds None as its account configuration, and compute() on an OK
\* account with positive equity raised AttributeError
C18_Witness ==
    /\ runs > 0
    /\ account_config = None
    /\ OkEquity(accounts_in, Len(accounts_in)) > 0
    /\ result = Raised("AttributeError")
    /\ storage_calls = <<"get_peak">>

\* the configuration states that do not make compute() fail: every state of
\* account.yaml but the empty file, every thesis.yaml without a zero
\* stress_pct, every mapping.csv without an over-large repetition count
ConfigTolerated ==
    (/\ runs > 0
     /\ OkEquity(accounts_in, Len(accounts_in)) > 0
     /\ account_config # None
     /\ \A name \in DOMAIN thesis_configs : thesis_configs[name].stress_pct # Zero
     /\ \A i \in 1..Len(mappings) :
            CompileOutcome(<<"^">> \o mappings[i].pattern \o <<"$">>) # "OverflowError")
        => Succeeded

-----------------------------------------------------------------------------
(* compute() and the store, run after run (specification Spec).            *)

\* C17: a compute() that ends with an error, whatever the error and wherever
\* it is raised, has inserted no row in any table.
C17_AsStated ==
    [][(runs' = runs + 1 /\ result'.kind = "error") => UNCHANGED storage_vars]_vars

\* C17, the reachable state that refutes it: the latest compute() called
\* save_mode_change, whose row is the last of mode_history, and then raised
\* ZeroDivisionError
C17_Witness ==
    /\ result = Raised("ZeroDivisionError")
    /\ storage_calls = <<"get_peak", "get_last_mode", "save_mode_change">>
    /\ mode_history # <<>>
    /\ mode_history[Len(mode_history)].timestamp = clock - 1
    /\ \A i \in 1..Len(equity_history) : equity_history[i].timestamp # clock - 1

\* the rows of the table before the step are the first rows of the table
\* after it
Appended(before, after) ==
    Len(before) <= Len(after) /\ SubSeq(after, 1, Len(before)) = before

Count(calls, method) == Cardinality({i \in 1..Len(calls) : calls[i] = method})

\* C19: a compute() only appends to the tables: the rows that were there are
\* still there, unchanged and in place; a compute() that returns has called
\* get_peak once and get_last_mode once and has appended exactly one row to
\* equity_history and at most one to mode_history.
C19_AppendOnly ==
    [][runs' = runs + 1 =>
          /\ Appended(equity_history, equity_history')
          /\ Appended(mode_history, mode_history')
          /\ Appended(thesis_metrics, thesis_metrics')
          /\ Appended(positions, positions')
          /\ result'.kind = "ok" =>
                 /\ Count(storage_calls', "get_peak") = 1
                 /\ Count(storage_calls', "get_last_mode") = 1
                 /\ Len(equity_history') = Len(equity_history) + 1
                 /\ Len(mode_history') \in {Len(mode_history), Len(mode_history) + 1}
                 /\ Count(storage_calls', "save_equity_snapshot") = 1
                 /\ Count(storage_calls', "save_mode_change")
                        = Len(mode_history') - Len(mode_history)]_vars

\* the third compute() returned: it changed the mode, and the store holds
\* three equity rows, two mode changes and the rows of the earlier runs
C19_Witness ==
    /\ Succeeded
    /\ runs = 3
    /\ Len(equity_history) = 3
    /\ Len(mode_history) = 2
    /\ result.mode_changed
    /\ equity_history[1].timestamp = 1
    /\ equity_history[2].timestamp = 2
    /\ positions # <<>>
    /\ thesis_metrics # <<>>
    /\ storage_calls = <<"get_peak", "get_last_mode", "save_mode_change",
                         "save_equity_snapshot", "save_thesis_metrics",
                         "save_positions">>

\* the runs before the k-th that returned
EarlierSuccesses(k) == {j \in 1..(k - 1) : outcomes[j].kind = "ok"}

\* C20: in runs made one after the other, the last mode a run reads
\* (old_mode) is the mode persisted by the latest earlier run that returned,
\* and null only if no earlier run returned; runs that failed in between do
\* not change it.
C20_LastModeOfLatestSuccess ==
    /\ Len(equity_history) = Cardinality(EarlierSuccesses(Len(outcomes) + 1))
    /\ \A k \in 1..Len(outcomes) :
           outcomes[k].kind = "ok" =>
               LET earlier == EarlierSuccesses(k)
                   row == equity_history[Cardinality(earlier) + 1]
               IN  /\ row.mode = outcomes[k].mode
                   /\ row.timestamp = outcomes[k].timestamp
                   /\ outcomes[k].old_mode
                         = IF earlier = {} THEN NoMode
                           ELSE outcomes[CHOOSE j \in earlier :
                                             \A i \in earlier : i <= j].mode

\* the first run returned NORMAL; the second changed the mode to MIN, saved
\* the change and failed; the third read NORMAL, the mode of the first
C20_Witness ==
    /\ Len(outcomes) = 3
    /\ outcomes[1].kind = "ok" /\ outcomes[1].mode = "NORMAL"
    /\ outcomes[1].old_mode = NoMode
    /\ outcomes[2] = Raised("ZeroDivisionError")
    /\ mode_history # <<>>
    /\ mode_history[1].new_mode = "MIN"
    /\ outcomes[3].kind = "ok"
    /\ outcomes[3].old_mode = "NORMAL"

-----------------------------------------------------------------------------
(* One compute() on two stores: the same engine and account data, the same *)
(* persisted peak, another last mode.  Each store is what earlier runs of   *)
(* the engine on accounts without positions left behind.                    *)

HistoryEquities == {100, 88, 76}

\* equity_history after one more run, on one OK account with this equity
StoreWith(engine, before, timestamp, equity) ==
    before \o compute(engine[1], engine[2], engine[3], before, timestamp,
                      <<Account("1", equity, "OK", <<>>)>>).equity_rows

\* equity_history after runs on one OK account with these equities
RECURSIVE StoreAfter(_, _)
StoreAfter(engine, equities) ==
    IF equities = <<>> THEN <<>>
    ELSE StoreWith(engine, StoreAfter(engine, SubSeq(equities, 1, Len(equities) - 1)),
                   Len(equities), equities[Len(equities)])

Histories == UNION {[1..n -> HistoryEquities] : n \in 0..MaxHistory}

\* the greatest of the equities, 0 for none
MaxOf(equities) ==
    IF equities = <<>> THEN 0
    ELSE CHOOSE e \in {equities[i] : i \in 1..Len(equities)} :
             \A i \in 1..Len(equities) : equities[i] <= e

InitPair ==
    /\ mode_history = <<>>
    /\ thesis_metrics = <<>>
    /\ positions = <<>>
    /\ accounts_in = <<>>
    /\ result = NoResult
    /\ runs = 0
    /\ storage_calls = <<>>
    /\ outcomes = <<>>
    /\ run_log = <<>>
    /\ outward_calls = <<>>
    /\ procs = <<>>
    /\ ret = NoCall
    /\ clock = MaxHistory + 1
    /\ \E e \in Engines :
          /\ account_config = e[1]
          /\ thesis_configs = e[2]
          /\ mappings = e[3]
          /\ \E stores \in {[h \in Histories |-> StoreAfter(e, h)]} :
                \E one \in Histories, other \in Histories, accounts_data \in AccountLists :
                   /\ MaxOf(one) = MaxOf(other)
                   /\ get_last_mode(stores[one]) # get_last_mode(stores[other])
                   /\ equity_history = stores[one]
                   /\ call = [op |-> "compute", accounts_data |-> accounts_data,
                              other_history |-> stores[other]]

\* compute() on the store, and the same compute() on the other store
ComputeOnBoth ==
    /\ call.op = "compute"
    /\ ret = NoCall
    /\ Compute_on(call.accounts_data)
    /\ \E c \in {compute(account_config, thesis_configs, mappings, call.other_history,
                            clock, call.accounts_data)} :
           ret' = [op |-> "compute", out |-> c.out, mode_rows |-> c.mode_rows]

SpecPair == InitPair /\ [][ComputeOnBoth]_vars

ComputedOnBoth == ret # NoCall /\ ret.op = "compute"

\* the action log without its MODE CHANGE entries
WithoutModeChange(actions) == SelectSeq(actions, LAMBDA a : a.kind # "MODE CHANGE")

\* C21: two compute() on the same configuration and account data and on
\* stores with the same persisted peak and different last modes both fail
\* with the same error, or return the same mode, risk_scale, peak, drawdown
\* and thesis results and the same action log but for MODE CHANGE entries.
C21_ModeIsStateless ==
    ComputedOnBoth =>
        /\ result.kind = ret.out.kind
        /\ result.kind = "error" => result = ret.out
        /\ result.kind = "ok" =>
               /\ result.mode = ret.out.mode
               /\ result.risk_scale = ret.out.risk_scale
               /\ result.peak = ret.out.peak
               /\ result.drawdown = ret.out.drawdown
               /\ result.thesis_results = ret.out.thesis_results
               /\ WithoutModeChange(result.actions) = WithoutModeChange(ret.out.actions)

\* on a store whose last mode is NORMAL and on one whose last mode is MIN,
\* both with peak 100, the run is classified HALF: both change the mode,
\* from different modes, and return the same thesis results
C21_Witness ==
    /\ ComputedOnBoth
    /\ Succeeded
    /\ result.old_mode = "NORMAL" /\ ret.out.old_mode = "MIN"
    /\ result.peak = FromInt(100) /\ ret.out.peak = FromInt(100)
    /\ result.mode = "HALF" /\ ret.out.mode = "HALF"
    /\ result.actions # ret.out.actions
    /\ result.thesis_results # <<>>
    /\ result.thesis_results = ret.out.thesis_results

-----------------------------------------------------------------------------
(* main.run: collect the accounts, construct the engine and compute,       *)
(* log the run, notify, write to Google Sheets.  What the brokers deliver  *)
(* and what SheetsWriter.write_all does are inputs of each run.            *)

\* what collect_broker_data returns
Collected(accounts, schwab, fidelity) ==
    [accounts |-> accounts, broker_statuses |-> [Schwab |-> schwab, Fidelity |-> fidelity]]

Collections ==
    {Collected(<<>>, "CONNECT_FAILED", "NO_CSV_FILE"),
     Collected(<<Account("1", 100, "OK", LongBook)>>, "OK", "NO_CSV_FILE"),
     Collected(<<Account("1", 88, "OK", BigBook)>>, "OK", "ERROR: unreadable"),
     Collected(<<Account("1", 50, "ERROR", BigBook)>>, "OK", "OK"),
     Collected(<<Account("1", 76, "OK", ShortBook)>>, "OK", "OK")}

\* write_all returns True, returns False (not configured) or raises
SheetsOutcomes == {"written", "skipped", "raises"}

\* lines 118-120: a data-failure notification per broker that failed
DataFailures(broker_statuses) ==
    (IF broker_statuses.Schwab \notin {"OK", "NO_CSV_FILE"}
     THEN <<[kind |-> "notify_data_failure", broker |-> "Schwab"]>> ELSE <<>>)
    \o (IF broker_statuses.Fidelity \notin {"OK", "NO_CSV_FILE"}
        THEN <<[kind |-> "notify_data_failure", broker |-> "Fidelity"]>> ELSE <<>>)

\* the Sheets block with an exception of write_all let through
SheetsWrite_uncaught(dry_run, skip_sheets, sheets) ==
    IF ~skip_sheets /\ ~dry_run
    THEN [calls |-> <<[kind |-> "write_all", outcome |-> sheets]>>,
          raised |-> sheets = "raises"]
    ELSE [calls |-> <<>>, raised |-> FALSE]

\* lines 149-158: write_all is called unless skipped, its exception caught
SheetsWrite(dry_run, skip_sheets, sheets) ==
    IF ~skip_sheets /\ ~dry_run
    THEN [calls |-> <<[kind |-> "write_all", outcome |-> sheets]>>, raised |-> FALSE]
    ELSE [calls |-> <<>>, raised |-> FALSE]

\* lines 141-147: the notifications of a returned RiskResult
ResultNotifications(r) ==
    (IF r.mode_changed THEN <<[kind |-> "notify_mode_change"]>> ELSE <<>>)
    \o (IF \E i \in 1..Len(r.thesis_results) :
               RGt(r.thesis_results[i].utilization, One)
        THEN <<[kind |-> "notify_utilization_breach"]>> ELSE <<>>)

NotComputed == [out |-> NoResult, calls |-> <<>>, mode_rows |-> <<>>, equity_rows |-> <<>>, thesis_rows |-> <<>>, position_rows |-> <<>>]

\* run() as a function of its inputs and of c, what engine.compute(accounts)
\* does when run() calls it: the status run() returns or what it raises,
\* what compute() did, the run_log rows it inserts and its calls outside the
\* engine
run(c, now, dry_run, skip_sheets, collected, sheets) ==
    LET failures == DataFailures(collected.broker_statuses)
        sw == SheetsWrite(dry_run, skip_sheets, sheets)
    IN  IF collected.accounts = <<>>
        THEN [code |-> "1", engine |-> NotComputed, invoked |-> FALSE,
              log_rows |-> <<>>, calls |-> failures]
        ELSE IF c.out = Raised("ValueError")
        THEN [code |-> "1", engine |-> c, invoked |-> TRUE, log_rows |-> <<>>,
              calls |-> failures]
        ELSE IF c.out.kind = "error"
        THEN [code |-> c.out.error, engine |-> c, invoked |-> TRUE,
              log_rows |-> <<>>, calls |-> failures]
        ELSE [code |-> IF sw.raised THEN "Exception" ELSE "0",
              engine |-> c, invoked |-> TRUE,
              log_rows |-> <<[timestamp |-> now, status |-> c.out.status,
                              message |-> "Completed",
                              brokers_status |-> collected.broker_statuses]>>,
              calls |-> failures \o ResultNotifications(c.out) \o sw.calls]

InitRun ==
    /\ InitIdle
    /\ call = NoCall
    /\ \E e \in Engines :
          /\ account_config = e[1]
          /\ thesis_configs = e[2]
          /\ mappings = e[3]

Run(dry_run, skip_sheets, collected, sheets) ==
    /\ runs < MaxAppRuns
    /\ \E c \in {compute(account_config, thesis_configs, mappings, equity_history,
                            clock + 1, collected.accounts)} :
       \E r \in {run(c, clock, dry_run, skip_sheets, collected, sheets)} :
           /\ ret' = [op |-> "run", code |-> r.code, invoked |-> r.invoked]
           /\ run_log' = run_log \o r.log_rows
           /\ outward_calls' = r.calls
           /\ result' = IF r.invoked THEN r.engine.out ELSE result
           /\ outcomes' = IF r.invoked THEN Append(outcomes, r.engine.out) ELSE outcomes
           /\ storage_calls' = IF r.invoked THEN r.engine.calls ELSE storage_calls
           /\ mode_history' = mode_history \o r.engine.mode_rows
           /\ equity_history' = equity_history \o r.engine.equity_rows
           /\ thesis_metrics' = thesis_metrics \o r.engine.thesis_rows
           /\ positions' = positions \o r.engine.position_rows
    /\ call' = [op |-> "run", dry_run |-> dry_run, skip_sheets |-> skip_sheets,
                sheets |-> sheets]
    /\ accounts_in' = collected.accounts
    /\ clock' = clock + 2
    /\ runs' = runs + 1
    /\ UNCHANGED <<engine_vars, procs>>

\* the Sheets outcome is an input only of a run that can reach write_all
NextRun ==
    \E collected \in Collections :
        \/ \E sheets \in SheetsOutcomes : Run(FALSE, FALSE, collected, sheets)
        \/ Run(TRUE, FALSE, collected, "skipped")
        \/ Run(FALSE, TRUE, collected, "skipped")

SpecRun == InitRun /\ [][NextRun]_vars

\* a call of the latest run() beyond the data-failure notifications
ActedOnResult ==
    \E i \in 1..Len(outward_calls) :
        outward_calls[i].kind \in {"notify_mode_change", "notify_utilization_breach",
                                   "write_all"}

-----------------------------------------------------------------------------
(* SchwabConnector._request, one step per call it waits for: the token     *)
(* check, each requests.request, each token refresh, each sleep.  What the *)
(* token endpoint and the API answer is the environment's choice.          *)

\* schwab.py line 148: for attempt in range(3)
RetryLimit == 3

\* _ensure_valid_token: the token is current or cached, or it is refreshed
\* with one POST that succeeds or fails
TokenStates == {"valid", "refreshed", "failed"}

\* what requests.request does: a response with a status code (429 with a
\* Retry-After that int() accepts or not), or an exception
Responses == {"200", "401", "429", "429 Retry-After: date", "500", "Timeout", "ConnectionError"}

NewRequest == [op |-> "_request", pc |-> "token", attempt |-> 0, responses |-> <<>>, refreshes |-> <<>>, token_posts |-> 0, sleeps |-> 0]

InitRequest ==
    /\ InitIdle
    /\ account_config = DefaultAccountConfig
    /\ thesis_configs = SampleTheses
    /\ mappings = SampleMappings
    /\ call = NewRequest

Done == call.pc = "done"

\* the call ends: it returns the JSON or raises
Finish(c, outcome, error) ==
    /\ call' = [c EXCEPT !.pc = "done"]
    /\ ret' = [op |-> "_request", outcome |-> outcome, error |-> error]

\* continue: the next attempt, or line 177 when range(3) is exhausted
Continue(c) ==
    IF c.attempt + 1 < RetryLimit
    THEN /\ call' = [c EXCEPT !.attempt = @ + 1, !.pc = "request"]
         /\ ret' = ret
    ELSE Finish([c EXCEPT !.attempt = @ + 1], "raised", "Max retries exceeded")

\* lines 141-142
EnsureValidToken(token) ==
    /\ call.op = "_request" /\ call.pc = "token"
    /\ \E c \in {[call EXCEPT !.token_posts = IF token = "valid" THEN 0 ELSE 1]} :
          IF token = "failed"
          THEN Finish(c, "raised", "Failed to obtain valid Schwab token")
          ELSE call' = [c EXCEPT !.pc = "request"] /\ ret' = ret
    /\ UNCHANGED <<engine_vars, storage_vars, run_vars, app_vars>>

\* lines 149-175: one requests.request and what its response leads to
Request(response) ==
    /\ call.op = "_request" /\ call.pc = "request"
    /\ \E c \in {[call EXCEPT !.responses = Append(@, response)]} :
          CASE response = "401" -> call' = [c EXCEPT !.pc = "refresh"] /\ ret' = ret
            [] response = "429" -> call' = [c EXCEPT !.pc = "sleep"] /\ ret' = ret
            [] response = "429 Retry-After: date" -> Finish(c, "raised", "ValueError")
            [] response = "500" -> Finish(c, "raised", "HTTPError")
            [] response = "200" -> Finish(c, "returned", "none")
            [] response = "Timeout" ->
                 IF c.attempt = 2 THEN Finish(c, "raised", "Timeout") ELSE Continue(c)
            [] response = "ConnectionError" -> Finish(c, "raised", "ConnectionError")
    /\ UNCHANGED <<engine_vars, storage_vars, run_vars, app_vars>>

\* a failed refresh after a 401 retried like a successful one
Refreshed_ignoring_failure(c, ok) ==
    Continue(c)

\* lines 154-160: retry after a successful refresh, raise after a failed one
Refreshed(c, ok) ==
    IF ok THEN Continue(c) ELSE Finish(c, "raised", "Token refresh failed")

RefreshAccessToken(ok) ==
    /\ call.op = "_request" /\ call.pc = "refresh"
    /\ Refreshed([call EXCEPT !.refreshes = Append(@, ok), !.token_posts = @ + 1], ok)
    /\ UNCHANGED <<engine_vars, storage_vars, run_vars, app_vars>>

\* lines 162-167
Sleep ==
    /\ call.op = "_request" /\ call.pc = "sleep"
    /\ Continue([call EXCEPT !.sleeps = @ + 1])
    /\ UNCHANGED <<engine_vars, storage_vars, run_vars, app_vars>>

NextRequest ==
    \/ \E token \in TokenStates : EnsureValidToken(token)
    \/ \E response \in Responses : Request(response)
    \/ \E ok \in BOOLEAN : RefreshAccessToken(ok)
    \/ Sleep

\* every call _request waits for returns: the requests carry timeout=30 and
\* the sleep is finite
SpecRequest == InitRequest /\ [][NextRequest]_vars /\ WF_vars(NextRequest)

\* the responses of the kind received so far
Received(kind) == Cardinality({i \in 1..Len(call.responses) : call.responses[i] = kind})

RefreshFailed == \E i \in 1..Len(call.refreshes) : ~call.refreshes[i]

LastResponse == call.responses[Len(call.responses)]

RequestEnded ==
    /\ ret.op = "_request"
    /\ ret.outcome = "returned" <=> (call.responses # <<>> /\ LastResponse = "200")
    /\ ret.outcome = "raised" =>
          \/ call.responses = <<>> /\ ret.error = "Failed to obtain valid Schwab token"
          \/ RefreshFailed /\ ret.error = "Token refresh failed"
          \/ /\ LastResponse \in {"500", "ConnectionError", "429 Retry-After: date"}
             /\ ret.error \in {"HTTPError", "ConnectionError", "ValueError"}
          \/ /\ Len(call.responses) = 3 /\ LastResponse \in {"401", "429", "Timeout"}
             /\ ret.error \in {"Max retries exceeded", "Timeout"}

\* every request before the last got a 401, a 429 or a timeout; each 401 was
\* followed by one refresh and each 429 by one sleep before the next request
RequestRetries ==
    /\ Len(call.responses) <= 3
    /\ \A i \in 1..Len(call.responses) - 1 : call.responses[i] \in {"401", "429", "Timeout"}
    /\ Len(call.refreshes) = Received("401") - (IF call.pc = "refresh" THEN 1 ELSE 0)
    /\ call.sleeps = Received("429") - (IF call.pc = "sleep" THEN 1 ELSE 0)
    /\ RefreshFailed => Done /\ ~call.refreshes[Len(call.refreshes)]
    /\ call.pc = "request" => call.attempt = Len(call.responses)

-----------------------------------------------------------------------------
(* The short-option advisory of lines 268-275.                             *)

\* the accounts with every option held long: same symbols and market values
OptionsHeldLong(accounts) ==
    [a \in 1..Len(accounts) |->
        [accounts[a] EXCEPT !.positions =
            [i \in 1..Len(@) |->
                IF @[i].instrument_type = "OPTION" /\ @[i].qty < 0
                THEN [@[i] EXCEPT !.qty = 0 - @] ELSE @[i]]]]

Warnings(actions, thesis) ==
    Cardinality({i \in 1..Len(actions) : actions[i] = ShortOptionWarning(thesis)})

WithoutWarnings(actions) == SelectSeq(actions, LAMBDA a : a.kind # "WARNING")

WithoutPositions(t) == [f \in DOMAIN t \ {"positions"} |-> t[f]]

\* C24: the short-option advisory changes no field of any ThesisResult, nor
\* the mode, the peak, the drawdown or the order of the results: the call
\* returns what it returns for the same book with the options held long,
\* plus one warning entry for each thesis that holds an OPTION with qty < 0
\* and for no other
C24_AdvisoryOnly ==
    [][(runs' = runs + 1 /\ result'.kind = "ok") =>
          \A plain \in {compute(account_config, thesis_configs, mappings, equity_history,
                               clock, OptionsHeldLong(accounts_in')).out} :
          LET r == result'
          IN  /\ plain.kind = "ok"
              /\ r.mode = plain.mode /\ r.peak = plain.peak /\ r.drawdown = plain.drawdown
              /\ r.risk_scale = plain.risk_scale /\ r.mode_changed = plain.mode_changed
              /\ Len(r.thesis_results) = Len(plain.thesis_results)
              /\ \A i \in 1..Len(r.thesis_results) :
                    /\ WithoutPositions(r.thesis_results[i])
                         = WithoutPositions(plain.thesis_results[i])
                    /\ Warnings(r.actions, r.thesis_results[i].name)
                         = IF \E k \in 1..Len(r.thesis_results[i].positions) :
                                  /\ r.thesis_results[i].positions[k].instrument_type = "OPTION"
                                  /\ r.thesis_results[i].positions[k].qty < 0
                           THEN 1 ELSE 0
              /\ WithoutWarnings(r.actions) = plain.actions]_vars

\* a thesis holding a short option got its warning, one holding a long
\* option got none
C24_Witness ==
    /\ result.kind = "ok"
    /\ \E i, j \in 1..Len(result.thesis_results) :
          LET t == result.thesis_results[i]
              u == result.thesis_results[j]
          IN  /\ \E k \in 1..Len(t.positions) :
                    t.positions[k].instrument_type = "OPTION" /\ t.positions[k].qty < 0
              /\ Warnings(result.actions, t.name) = 1
              /\ \E k \in 1..Len(u.positions) :
                    u.positions[k].instrument_type = "OPTION" /\ u.positions[k].qty > 0
              /\ Warnings(result.actions, u.name) = 0

-----------------------------------------------------------------------------
(* The thesis configuration a thesis is evaluated with (lines 257-266).    *)

\* the thesis was evaluated with these three values
EvaluatedWith(r, t, stress_pct, budget_pct, status) ==
    /\ t.stress_pct = stress_pct /\ t.budget_pct = budget_pct /\ t.status = status
    /\ t.worst_loss = RMul(RAbs(t.mv), stress_pct)
    /\ t.budget_dollars = RMul(RMul(r.equity, budget_pct), r.risk_scale)
    /\ (t.action = ExitAction) <=> (status = "BROKEN")

\* C25: a thesis id with no entry in the loaded thesis configuration is
\* evaluated with stress 0.25, budget 0.02 and status ACTIVE; a thesis with an
\* entry is evaluated with the values of its entry
C25_ThesisConfigUsed ==
    result.kind = "ok" =>
        \A i \in 1..Len(result.thesis_results) :
            LET t == result.thesis_results[i]
            IN  IF t.name \in DOMAIN thesis_configs
                THEN EvaluatedWith(result, t, thesis_configs[t.name].stress_pct,
                                   thesis_configs[t.name].budget_pct,
                                   thesis_configs[t.name].status)
                ELSE EvaluatedWith(result, t, <<1, 4>>, <<1, 50>>, "ACTIVE")

\* a call evaluated a thesis without an entry and a thesis with one, the
\* entry differing from the fallback in all three values
C25_Witness ==
    /\ result.kind = "ok"
    /\ \E i, j \in 1..Len(result.thesis_results) :
          LET t == result.thesis_results[i]
              u == result.thesis_results[j]
          IN  /\ t.name \notin DOMAIN thesis_configs /\ t.budget_pct = <<1, 50>>
              /\ t.mv # Zero
              /\ u.name \in DOMAIN thesis_configs
              /\ u.stress_pct # <<1, 4>> /\ u.budget_pct # <<1, 50>> /\ u.status # "ACTIVE"
              /\ u.mv # Zero

-----------------------------------------------------------------------------
(* The risk scale of a run (lines 177-190, 277-280).                       *)

ConfiguredScales == Get(account_config, "risk_scale", <<>>)

\* C26: the risk scale a call returns is exactly the configured entry of the
\* mode it classified, 1.0 when the mode has no entry, and that one
\* multiplier is applied to the dollar budget of every thesis
C26_RiskScaleOfMode ==
    result.kind = "ok" =>
        /\ result.mode = compute_mode(account_config, result.drawdown)[1]
        /\ result.risk_scale = IF result.mode \in DOMAIN ConfiguredScales
                               THEN ConfiguredScales[result.mode] ELSE One
        /\ \A i \in 1..Len(result.thesis_results) :
              result.thesis_results[i].budget_dollars
                  = RMul(RMul(result.equity, result.thesis_results[i].budget_pct),
                         result.risk_scale)

\* a call classified MIN under a configuration with an entry for HALF only:
\* scale 1.0, applied to two theses, one of them with a budget
C26_Witness ==
    /\ result.kind = "ok" /\ result.mode = "MIN"
    /\ DOMAIN ConfiguredScales = {"HALF"}
    /\ result.risk_scale = One
    /\ \E i, j \in 1..Len(result.thesis_results) :
          /\ i # j
          /\ RGt(result.thesis_results[i].budget_dollars, Zero)

-----------------------------------------------------------------------------
(* mode_history against equity_history over sequential runs.               *)

\* the changes of mode between consecutive snapshots, oldest first
RECURSIVE Transitions(_)
Transitions(eh) ==
    IF Len(eh) < 2 THEN <<>>
    ELSE LET before == Transitions(SubSeq(eh, 1, Len(eh) - 1))
             a == eh[Len(eh) - 1]
             b == eh[Len(eh)]
         IN  IF a.mode # b.mode
             THEN Append(before, [timestamp |-> b.timestamp, old_mode |-> a.mode,
                                  new_mode |-> b.mode])
             ELSE before

RecordedChanges ==
    [i \in 1..Len(mode_history) |->
        [timestamp |-> mode_history[i].timestamp, old_mode |-> mode_history[i].old_mode,
         new_mode |-> mode_history[i].new_mode]]

\* C27: after any sequence of sequential runs, failed ones included,
\* mode_history has exactly one row per pair of consecutive snapshots of
\* equity_history whose modes differ, carrying those two modes, and no other
C27_AsStated ==
    RecordedChanges = Transitions(equity_history)

\* C27, the reachable state that refutes it: one snapshot, hence no pair of
\* consecutive snapshots, and a mode_history row NORMAL -> MIN left by a run
\* that failed after saving it
C27_Witness ==
    /\ Len(equity_history) = 1 /\ equity_history[1].mode = "NORMAL"
    /\ Len(mode_history) = 1
    /\ mode_history[1].old_mode = "NORMAL" /\ mode_history[1].new_mode = "MIN"
    /\ Len(outcomes) = 2 /\ outcomes[2].kind = "error"

-----------------------------------------------------------------------------
(* The REDUCE recommendation for long and for net-short theses.            *)

SameSign(x, y) ==
    \/ RGt(x, Zero) /\ RGt(y, Zero)
    \/ RGt(Zero, x) /\ RGt(Zero, y)
    \/ x = Zero /\ y = Zero

\* C28: for a thesis that is not BROKEN, gets REDUCE and has budget_dollars
\* > 0, long or net-short: target_mv has the sign of mv and is smaller in
\* size, reduce_amount has the sign of mv and is at most mv in size, and
\* |target_mv| * stress_pct == budget_dollars
C28_AsStated ==
    (/\ Evaluated /\ ~ret.raised /\ CallConfig.status # "BROKEN"
     /\ ret.result.action.kind = "REDUCE" /\ RGt(ret.result.budget_dollars, Zero)) =>
        LET t == ret.result
        IN  /\ SameSign(t.target_mv, t.mv)
            /\ RGt(RAbs(t.mv), RAbs(t.target_mv))
            /\ SameSign(t.reduce_amount, t.mv)
            /\ RGe(RAbs(t.mv), RAbs(t.reduce_amount))
            /\ RMul(RAbs(t.target_mv), t.stress_pct) = t.budget_dollars

\* C28, the reachable state that refutes it: a net-short thesis over its
\* budget is given a positive target_mv and a reduce_amount larger than its
\* position
C28_Witness ==
    /\ Evaluated /\ ~ret.raised /\ CallConfig.status # "BROKEN"
    /\ ret.result.action.kind = "REDUCE" /\ RGt(ret.result.budget_dollars, Zero)
    /\ RGt(Zero, ret.result.mv)
    /\ RGt(ret.result.target_mv, Zero)
    /\ RGt(RAbs(ret.result.reduce_amount), RAbs(ret.result.mv))

-----------------------------------------------------------------------------
(* Two compute() invocations on one store, interleaved at the storage      *)
(* calls: each call of a Storage method opens its own connection and       *)
(* commits on its own, and nothing in the engine holds a lock across them. *)

\* the snapshots earlier runs left in the store
PriorStores ==
    {StoreAfter(<<DefaultAccountConfig, SampleTheses, SampleMappings>>, h) :
        h \in {<<>>, <<100>>, <<88>>}}

InterleavedAccounts ==
    {<<Account("1", 120, "OK", <<>>)>>, <<Account("1", 100, "OK", LongBook)>>,
     <<Account("1", 88, "OK", BigBook)>>, <<Account("1", 0, "OK", <<>>)>>}

Invocation(accounts_data) ==
    [pc |-> "start", accounts_data |-> accounts_data, timestamp |-> 0,
     historical_peak |-> Zero, old_mode |-> NoMode, computed |-> NotComputed,
     out |-> NoResult]

InitInterleaved ==
    /\ mode_history = <<>>
    /\ thesis_metrics = <<>>
    /\ positions = <<>>
    /\ accounts_in = <<>>
    /\ result = NoResult
    /\ runs = 0
    /\ storage_calls = <<>>
    /\ outcomes = <<>>
    /\ run_log = <<>>
    /\ outward_calls = <<>>
    /\ ret = NoCall
    /\ clock = MaxHistory + 1
    /\ equity_history \in PriorStores
    /\ call = [op |-> "compute", prior_peak |-> get_peak(equity_history)]
    /\ \E e \in Engines :
          /\ account_config = e[1]
          /\ thesis_configs = e[2]
          /\ mappings = e[3]
    /\ \E a, b \in InterleavedAccounts : procs = <<Invocation(a), Invocation(b)>>

\* what invocation p, having made its two reads, computes and will write
Computing(p) == procs[p].computed

\* p goes on to its next storage call
Goes(p, proc, pc) ==
    /\ procs' = [procs EXCEPT ![p] = [proc EXCEPT !.pc = pc]]
    /\ UNCHANGED <<result, outcomes, runs>>

\* p returns or raises
Ends(p, proc, out) ==
    /\ procs' = [procs EXCEPT ![p] = [proc EXCEPT !.pc = "done", !.out = out]]
    /\ result' = out
    /\ outcomes' = Append(outcomes, out)
    /\ runs' = runs + 1

\* lines 194-215: the timestamp, the aggregation and the test of the equity
Begin(p) ==
    /\ procs[p].pc = "start"
    /\ \E proc \in {[procs[p] EXCEPT !.timestamp = clock]} :
          IF RLe(TotalEquity(proc.accounts_data), Zero)
          THEN Ends(p, proc, Raised("ValueError"))
          ELSE Goes(p, proc, "get_peak")
    /\ clock' = clock + 1
    /\ UNCHANGED <<engine_vars, storage_vars, accounts_in, storage_calls, run_log,
                   outward_calls, call, ret>>

\* line 218, and _compute_mode at line 221
GetPeak(p) ==
    /\ procs[p].pc = "get_peak"
    /\ \E proc \in {[procs[p] EXCEPT !.historical_peak = get_peak(equity_history)]} :
          IF account_config = None
          THEN Ends(p, proc, Raised("AttributeError"))
          ELSE Goes(p, proc, "get_last_mode")
    /\ UNCHANGED <<engine_vars, storage_vars, clock, accounts_in, storage_calls, run_log,
                   outward_calls, call, ret>>

\* line 224: with the last mode read, the rest of the call is determined
GetLastMode(p) ==
    /\ procs[p].pc = "get_last_mode"
    /\ \E old_mode \in {get_last_mode(equity_history)} :
          \E c \in {compute_from(account_config, thesis_configs, mappings,
                                  procs[p].historical_peak, old_mode, procs[p].timestamp,
                                  procs[p].accounts_data)} :
             \E proc \in {[procs[p] EXCEPT !.old_mode = old_mode, !.computed = c]} :
                IF c.mode_rows # <<>> THEN Goes(p, proc, "save_mode_change")
                ELSE IF c.out.kind = "error" THEN Ends(p, proc, c.out)
                ELSE Goes(p, proc, "save_equity_snapshot")
    /\ UNCHANGED <<engine_vars, storage_vars, clock, accounts_in, storage_calls, run_log,
                   outward_calls, call, ret>>

\* lines 228-231, then the thesis loop, which may raise
SaveModeChange(p) ==
    /\ procs[p].pc = "save_mode_change"
    /\ \E c \in {Computing(p)} :
          /\ mode_history' = mode_history \o c.mode_rows
          /\ IF c.out.kind = "error" THEN Ends(p, procs[p], c.out)
             ELSE Goes(p, procs[p], "save_equity_snapshot")
    /\ UNCHANGED <<engine_vars, equity_history, thesis_metrics, positions, clock,
                   accounts_in, storage_calls, run_log, outward_calls, call, ret>>

\* the snapshot put in place of the rows of the table
SaveEquitySnapshot_overwriting(p) ==
    /\ procs[p].pc = "save_equity_snapshot"
    /\ equity_history' = Computing(p).equity_rows
    /\ Goes(p, procs[p], "save_thesis_metrics")
    /\ UNCHANGED <<engine_vars, mode_history, thesis_metrics, positions, clock,
                   accounts_in, storage_calls, run_log, outward_calls, call, ret>>

\* line 343
SaveEquitySnapshot(p) ==
    /\ procs[p].pc = "save_equity_snapshot"
    /\ equity_history' = equity_history \o Computing(p).equity_rows
    /\ Goes(p, procs[p], "save_thesis_metrics")
    /\ UNCHANGED <<engine_vars, mode_history, thesis_metrics, positions, clock,
                   accounts_in, storage_calls, run_log, outward_calls, call, ret>>

\* line 369
SaveThesisMetrics(p) ==
    /\ procs[p].pc = "save_thesis_metrics"
    /\ thesis_metrics' = thesis_metrics \o Computing(p).thesis_rows
    /\ Goes(p, procs[p], "save_positions")
    /\ UNCHANGED <<engine_vars, mode_history, equity_history, positions, clock,
                   accounts_in, storage_calls, run_log, outward_calls, call, ret>>

\* line 389, and the return
SavePositions(p) ==
    /\ procs[p].pc = "save_positions"
    /\ \E c \in {Computing(p)} :
          /\ positions' = positions \o c.position_rows
          /\ Ends(p, procs[p], c.out)
    /\ UNCHANGED <<engine_vars, mode_history, equity_history, thesis_metrics, clock,
                   accounts_in, storage_calls, run_log, outward_calls, call, ret>>

NextInterleaved ==
    \E p \in {1, 2} :
        \/ Begin(p)
        \/ GetPeak(p)
        \/ GetLastMode(p)
        \/ SaveModeChange(p)
        \/ SaveEquitySnapshot(p)
        \/ SaveThesisMetrics(p)
        \/ SavePositions(p)

SpecInterleaved == InitInterleaved /\ [][NextInterleaved]_vars

BothDone == \A p \in {1, 2} : procs[p].pc = "done"
Returned_ok(p) == procs[p].pc = "done" /\ procs[p].out.kind = "ok"
EquityOf(p) == TotalEquity(procs[p].accounts_data)

\* C29: however two compute() are interleaved on one store, once both have
\* completed get_peak() is the maximum of the peak persisted before and the
\* equities of the runs that appended their snapshot: the persisted peak
\* never decreases and loses no equity a run persisted
C29_PeakSurvivesInterleaving ==
    /\ RGe(get_peak(equity_history), call.prior_peak)
    /\ \A p \in {1, 2} : Returned_ok(p) => RGe(get_peak(equity_history), EquityOf(p))
    /\ BothDone =>
          get_peak(equity_history)
              \in {call.prior_peak} \cup {EquityOf(p) : p \in {p \in {1, 2} : Returned_ok(p)}}

\* both runs returned; the one that persisted last had read the peak before
\* the other, of higher equity, persisted: its snapshot carries a peak below
\* the persisted maximum, which is the other's equity
C29_Witness ==
    /\ \A p \in {1, 2} : Returned_ok(p)
    /\ equity_history[Len(equity_history)].peak # get_peak(equity_history)
    /\ \E p \in {1, 2} :
          /\ get_peak(equity_history) = EquityOf(p)
          /\ RGt(EquityOf(p), call.prior_peak)

\* the rows of mode_history written with the timestamp of snapshot i
RowsOf(i) ==
    {k \in 1..Len(mode_history) : mode_history[k].timestamp = equity_history[i].timestamp}

\* C30: however two compute() are interleaved on one store, every
\* mode_history row records a real transition between consecutive persisted
\* snapshots, its old_mode being the mode of the snapshot persisted
\* immediately before its writer's own, and no change of mode between
\* consecutive persisted snapshots is unrecorded or recorded twice (stated
\* here for two runs that both return)
C30_AsStated ==
    (\A p \in {1, 2} : Returned_ok(p)) =>
        /\ \A k \in 1..Len(mode_history) :
              \E i \in 2..Len(equity_history) :
                  /\ k \in RowsOf(i)
                  /\ equity_history[i - 1].mode = mode_history[k].old_mode
                  /\ equity_history[i].mode = mode_history[k].new_mode
        /\ \A i \in 2..Len(equity_history) :
              equity_history[i - 1].mode # equity_history[i].mode
                  => Cardinality(RowsOf(i)) = 1

\* C30, the reachable state that refutes it: both runs read NORMAL before
\* either persisted its snapshot, and both recorded the change from NORMAL,
\* while the snapshots show one change only
C30_Witness ==
    /\ \A p \in {1, 2} : Returned_ok(p)
    /\ Len(mode_history) = 2
    /\ mode_history[1].old_mode = "NORMAL" /\ mode_history[2].old_mode = "NORMAL"
    /\ mode_history[1].new_mode = mode_history[2].new_mode
    /\ Len(Transitions(equity_history)) = 1

====
